---- MODULE Spec2Model ----
(***************************************************************************)
(* Model of the SendSafely n8n node: the SDK-adaptation helpers            *)
(* (src/credentials/SendSafelyApi.credentials.ts: withRetry,               *)
(* wrapSdkCallback, sanitizeError, getSendSafelyClient, sanitizeFileName,  *)
(* getLogger with sanitizeLogMeta), the execute loop of                    *)
(* src/nodes/SendSafely/SendSafely.node.ts with its three handlers, and    *)
(* the execute function of descriptions/RecipientDescription.ts.           *)
(*                                                                         *)
(* A JavaScript string is modelled as a sequence of one-character strings, *)
(* so that toLowerCase, includes and the regular-expression replacements   *)
(* are computed character by character, as the code computes them.         *)
(***************************************************************************)
EXTENDS Integers, Sequences, FiniteSets, TLC

VARIABLES
    \* ---- withRetry (one invocation) ----
    maxRetries,     \* parameter maxRetries
    baseDelay,      \* parameter baseDelay
    attempt,        \* loop variable attempt
    lastError,      \* local lastError: [set, from, err]
    rpc,            \* position: "idle", "loop", "await_fn", "delay", "resolved", "rejected"
    calls,          \* number of times fn() has been invoked
    failures,       \* number of times fn() has rejected
    delayCount,     \* number of backoff timers started
    totalDelay,     \* the delay passed to the last setTimeout
    retryOutcome,   \* settled value of the promise withRetry returns
    logger,         \* whether the logger argument is given
    logged,         \* the calls made on the logger, in order
    \* ---- wrapSdkCallback (one promise) ----
    promiseState,   \* "idle", "pending", "fulfilled", "rejected"
    promiseValue,   \* [error, result] the promise settled with
    cbCount,        \* number of callback invocations so far
    fnThrew,        \* fn has thrown synchronously inside the executor
    firstCall,      \* [error, result] of the first callback invocation
    lastCall,       \* [error, result] of the latest callback invocation
    \* ---- sanitizeError (one call, then one more on its output) ----
    spc,            \* "idle", "ready", "done", "again"
    sanInput,       \* the error value passed in
    sanForm,        \* how the input was built: [name, sep, secret] (empty when free-form)
    sanOutput,      \* the string returned
    sanAgain,       \* the string returned when the output is sanitized once more
    \* ---- execute (one batch) ----
    nItems,         \* items.length
    continueOnFail, \* what this.continueOnFail() returns
    credentials,    \* what this.getCredentials('sendSafelyApi') returns
    parameters,     \* the <<resource, operation>> parameters as configured for each item
    resource,       \* local resource
    operation,      \* local operation
    itemIndex,      \* loop variable i (itemIndex in the handlers)
    epc,            \* position: "idle", "start", "loop", "dispatch", "handler", "sdk",
                    \*           "delay", "returned", "thrown"
    returnData,     \* local returnData
    responseData,   \* local responseData
    thrown,         \* the error execute has thrown
    plan,           \* what the running handler does for item i
    callIndex,      \* which SDK call of the plan is being made
    retryAttempt,   \* attempt of the withRetry call in progress
    outstanding,    \* SDK calls invoked whose callback has not been called yet
    events,         \* what has been done so far, for which item
    paramReads,     \* the <<name, index>> pairs getNodeParameter was called with, in order
    lookups,        \* how often getSendSafelyClient has been invoked for each item
    \* ---- execute of RecipientDescription.ts (one call) ----
    emails,         \* local emails (for add: the one address)
    emailIndex,     \* which address the loop of addMultiple is at
    recipients,     \* local recipients: the address each pushed recipient was added for
    \* ---- sanitizeFileName (one call) ----
    fpc,            \* position: "idle", "call", "returned", "threw"
    fileName,       \* parameter fileName
    fileResult,     \* the string returned or the message of the error thrown
    \* ---- a method of the logger of getLogger (one call) ----
    lpc,            \* position: "idle", "call", "logged"
    n8nLogger,      \* whether the context has a logger
    logLevel,       \* the method called: "debug", "info", "warn", "error"
    logMeta,        \* argument meta: [given, entries]
    logLine         \* what the sink received

coreVars == <<maxRetries, baseDelay, attempt, lastError, rpc, calls, failures,
              delayCount, totalDelay, retryOutcome>>
retryVars == <<coreVars, logger, logged>>
wrapVars == <<promiseState, promiseValue, cbCount, fnThrew, firstCall, lastCall>>
sanVars == <<spc, sanInput, sanForm, sanOutput, sanAgain>>
execVars == <<nItems, continueOnFail, credentials, parameters, resource, operation, itemIndex,
              epc, returnData, responseData, thrown, plan, callIndex, retryAttempt, outstanding,
              events, paramReads, lookups>>
recipVars == <<emails, emailIndex, recipients>>
fileVars == <<fpc, fileName, fileResult>>
logVars == <<lpc, n8nLogger, logLevel, logMeta, logLine>>
utilVars == <<fileVars, logVars>>
vars == <<retryVars, wrapVars, sanVars, execVars, recipVars, utilVars>>

(***************************************************************************)
(* Strings                                                                 *)
(***************************************************************************)
UpperChars == <<"A", "B", "C", "D", "E", "F", "G", "H", "I", "J", "K", "L", "M",
                "N", "O", "P", "Q", "R", "S", "T", "U", "V", "W", "X", "Y", "Z">>
LowerChars == <<"a", "b", "c", "d", "e", "f", "g", "h", "i", "j", "k", "l", "m",
                "n", "o", "p", "q", "r", "s", "t", "u", "v", "w", "x", "y", "z">>

\* the lower-case letter of each upper-case letter
LowerOf ==
    [c \in {UpperChars[i] : i \in 1..Len(UpperChars)} |->
        LowerChars[CHOOSE i \in 1..Len(UpperChars) : UpperChars[i] = c]]

\* String.prototype.toLowerCase on one character
LowerChar(c) == IF c \in DOMAIN LowerOf THEN LowerOf[c] ELSE c

\* String.prototype.toLowerCase
toLowerCase(s) == [i \in 1..Len(s) |-> LowerChar(s[i])]

\* sub occurs in s at position i (1-based)
OccursAt(s, sub, i) ==
    /\ i >= 1
    /\ i + Len(sub) - 1 <= Len(s)
    /\ \A j \in 1..Len(sub) : s[i + j - 1] = sub[j]

\* String.prototype.includes
includes(s, sub) == \E i \in 1..(Len(s) + 1) : OccursAt(s, sub, i)

(***************************************************************************)
(* Errors thrown by the operation passed to withRetry                      *)
(***************************************************************************)
StrRateLimit == <<"r", "a", "t", "e", " ", "l", "i", "m", "i", "t">>
StrTooManyRequests == <<"t", "o", "o", " ", "m", "a", "n", "y", " ", "r", "e", "q", "u", "e", "s", "t", "s">>
StrNoResult == <<"N", "o", " ", "r", "e", "s", "u", "l", "t", " ", "r", "e", "t", "u", "r", "n", "e", "d", " ", "f", "r", "o", "m", " ", "S", "D", "K", " ", "m", "e", "t", "h", "o", "d">>
StrRetryFailed == <<"R", "e", "t", "r", "y", " ", "f", "a", "i", "l", "e", "d", " ", "w", "i", "t", "h", " ", "u", "n", "k", "n", "o", "w", "n", " ", "e", "r", "r", "o", "r">>

\* messages the operation's errors carry in the model
MsgRateLimitMixed == <<"R", "a", "t", "e", " ", "L", "i", "m", "i", "t", " ", "e", "x", "c", "e", "e", "d", "e", "d">>
MsgTooManyUpper == <<"T", "O", "O", " ", "M", "A", "N", "Y", " ", "R", "E", "Q", "U", "E", "S", "T", "S">>
MsgNearMiss == <<"r", "a", "t", "e", "l", "i", "m", "i", "t", " ", "t", "i", "m", "e", "o", "u", "t">>
ErrorMessages == {MsgRateLimitMixed, MsgTooManyUpper, MsgNearMiss, StrNoResult, <<>>}

\* status codes around the edges of 429 and of [500, 600)
StatusCodes == {404, 428, 429, 430, 499, 500, 503, 599, 600}

\* An error object: statusCode and message may each be undefined.
MkError(hasStatus, statusCode, hasMessage, message) ==
    [hasStatus |-> hasStatus, statusCode |-> statusCode,
     hasMessage |-> hasMessage, message |-> message]

ErrorShapes ==
    {MkError(TRUE, sc, TRUE, m) : sc \in StatusCodes, m \in ErrorMessages}
    \cup {MkError(TRUE, sc, FALSE, <<>>) : sc \in StatusCodes}
    \cup {MkError(FALSE, 0, TRUE, m) : m \in ErrorMessages}
    \cup {MkError(FALSE, 0, FALSE, <<>>)}

\* new Error('Retry failed with unknown error')
GenericRetryError == MkError(FALSE, 0, TRUE, StrRetryFailed)

(***************************************************************************)
(* withRetry                                                               *)
(***************************************************************************)
DefaultMaxRetries == 3
DefaultBaseDelay == 1000
JitterRange == 200
MaxRetriesBound == 3

\* values of the maxRetries argument: the default, smaller ones and a negative one
MaxRetriesValues == (-1)..MaxRetriesBound
BaseDelayValues == {DefaultBaseDelay, 1}
\* Math.random() * 200 lies in [0, 200); its ends and an inner value
JitterValues == {0, 1, JitterRange - 1}

RECURSIVE Pow2(_)
\* Math.pow(2, n)
Pow2(n) == IF n <= 0 THEN 1 ELSE 2 * Pow2(n - 1)

\* mutant: the phrase is looked for without lower-casing the message
MessageIncludesCaseSensitive(error, phrase) ==
    error.hasMessage /\ includes(error.message, phrase)

\* error.message?.toLowerCase().includes(phrase): undefined (falsy) without a message
MessageIncludes(error, phrase) ==
    error.hasMessage /\ includes(toLowerCase(error.message), phrase)

isRateLimitError(error) ==
    \/ (error.hasStatus /\ error.statusCode = 429)
    \/ MessageIncludes(error, StrRateLimit)
    \/ MessageIncludes(error, StrTooManyRequests)

\* mutant: the upper end of the server-error range is included
isServerErrorInclusive(error) ==
    error.hasStatus /\ error.statusCode >= 500 /\ error.statusCode <= 600

isServerError(error) ==
    error.hasStatus /\ error.statusCode >= 500 /\ error.statusCode < 600

\* mutant: the guard of `throw error` tests isServerError instead of its negation
RetryableWrongGuard(error) == ~(~isRateLimitError(error) /\ isServerError(error))

\* the negation of the guard of `throw error`
Retryable(error) == isRateLimitError(error) \/ isServerError(error)

\* mutant: the loop stops one attempt early
LoopConditionStrict(a, mr) == a < mr

\* for (...; attempt <= maxRetries; ...)
LoopCondition(a, mr) == a <= mr

\* mutant: exhaustion is noticed one attempt late
ExhaustedLate(a, mr) == a = mr + 1

\* if (attempt === maxRetries) break
Exhausted(a, mr) == a = mr

\* mutant: linear instead of exponential backoff
BackoffDelayLinear(bd, a) == bd * (a + 1)

\* const delay = baseDelay * Math.pow(2, attempt)
BackoffDelay(bd, a) == bd * Pow2(a)

\* const totalDelay = delay + jitter
TotalDelay(bd, a, jitter) == BackoffDelay(bd, a) + jitter

NoLastError == [set |-> FALSE, from |-> 0, err |-> MkError(FALSE, 0, FALSE, <<>>)]
NoOutcome == [kind |-> "none", from |-> 0, err |-> MkError(FALSE, 0, FALSE, <<>>)]
ResultOutcome(n) == [kind |-> "result", from |-> n, err |-> MkError(FALSE, 0, FALSE, <<>>)]
ErrorOutcome(n, e) == [kind |-> "error", from |-> n, err |-> e]

\* mutant: only the first error is remembered
CatchAssignFirst(le, n, error) ==
    IF le.set THEN le ELSE [set |-> TRUE, from |-> n, err |-> error]

\* lastError = error (in the catch block of call number n)
CatchAssign(le, n, error) == [set |-> TRUE, from |-> n, err |-> error]

\* mutant: the throw after the loop always throws the generic error
ThrowAfterLoopGeneric(le) == [kind |-> "generic", from |-> 0, err |-> GenericRetryError]

\* throw lastError || new Error('Retry failed with unknown error')
ThrowAfterLoop(le) ==
    IF le.set THEN ErrorOutcome(le.from, le.err)
    ELSE [kind |-> "generic", from |-> 0, err |-> GenericRetryError]

\* logger.<level>(message, { attempt | attempts: n, errorType, ... }); delayMs,
\* maxRetries and statusCode repeat what the state holds and are left out
LogLine(level, message, n, errorType) ==
    [level |-> level, message |-> message, n |-> n, errorType |-> errorType]

\* isRateLimitError ? 'rateLimit' : isServerError ? 'serverError' : 'clientError'
ErrorType(error) ==
    IF isRateLimitError(error) THEN "rateLimit"
    ELSE IF isServerError(error) THEN "serverError" ELSE "clientError"

\* if (logger) logger.<level>(...)
Log(line) == logged' = (IF logger THEN Append(logged, line) ELSE logged)

RetryInit ==
    /\ logger \in BOOLEAN
    /\ logged = <<>>
    /\ maxRetries \in MaxRetriesValues
    /\ baseDelay \in BaseDelayValues
    /\ attempt = 0
    /\ lastError = NoLastError
    /\ rpc = "loop"
    /\ calls = 0
    /\ failures = 0
    /\ delayCount = 0
    /\ totalDelay = 0
    /\ retryOutcome = NoOutcome

RetryIdle ==
    /\ logger = FALSE
    /\ logged = <<>>
    /\ maxRetries = DefaultMaxRetries
    /\ baseDelay = DefaultBaseDelay
    /\ attempt = 0
    /\ lastError = NoLastError
    /\ rpc = "idle"
    /\ calls = 0
    /\ failures = 0
    /\ delayCount = 0
    /\ totalDelay = 0
    /\ retryOutcome = NoOutcome

\* mutant: logging the start of the attempt takes the place of invoking fn
InvokeFnLoggedInstead ==
    /\ rpc = "loop"
    /\ LoopCondition(attempt, maxRetries)
    /\ IF attempt > 0 /\ logger
       THEN /\ Log(LogLine("debug", "Retry attempt starting", attempt, "none"))
            /\ calls' = calls
       ELSE /\ logged' = logged
            /\ calls' = calls + 1
    /\ rpc' = "await_fn"
    /\ UNCHANGED <<maxRetries, baseDelay, attempt, lastError, failures, delayCount,
                   totalDelay, retryOutcome, logger>>

\* The loop test succeeds, the start of a retry is logged and fn() is invoked;
\* withRetry suspends at `await fn()`.
InvokeFn ==
    /\ rpc = "loop"
    /\ LoopCondition(attempt, maxRetries)
    /\ IF attempt > 0
       THEN Log(LogLine("debug", "Retry attempt starting", attempt, "none"))
       ELSE logged' = logged
    /\ calls' = calls + 1
    /\ rpc' = "await_fn"
    /\ UNCHANGED <<maxRetries, baseDelay, attempt, lastError, failures, delayCount,
                   totalDelay, retryOutcome, logger>>

\* The loop test fails: control reaches the throw after the loop.
LoopExit ==
    /\ rpc = "loop"
    /\ ~LoopCondition(attempt, maxRetries)
    /\ retryOutcome' = ThrowAfterLoop(lastError)
    /\ rpc' = "rejected"
    /\ UNCHANGED <<maxRetries, baseDelay, attempt, lastError, calls, failures,
                   delayCount, totalDelay, logger, logged>>

\* fn() fulfils: `return await fn()`.
FnResolves ==
    /\ rpc = "await_fn"
    /\ retryOutcome' = ResultOutcome(calls)
    /\ rpc' = "resolved"
    /\ UNCHANGED <<maxRetries, baseDelay, attempt, lastError, calls, failures,
                   delayCount, totalDelay, logger, logged>>

\* fn() rejects with error: the catch block up to its next suspension or exit.
FnRejects(error) ==
    /\ rpc = "await_fn"
    /\ failures' = failures + 1
    /\ lastError' = CatchAssign(lastError, calls, error)
    /\ IF ~Retryable(error)
       THEN \* throw error
            /\ Log(LogLine("debug", "Non-retryable error encountered", 0, ErrorType(error)))
            /\ retryOutcome' = ErrorOutcome(calls, error)
            /\ rpc' = "rejected"
            /\ UNCHANGED <<delayCount, totalDelay>>
       ELSE IF Exhausted(attempt, maxRetries)
       THEN \* break, then the throw after the loop
            /\ Log(LogLine("warn", "Max retries exhausted", attempt + 1, ErrorType(error)))
            /\ retryOutcome' = ThrowAfterLoop(lastError')
            /\ rpc' = "rejected"
            /\ UNCHANGED <<delayCount, totalDelay>>
       ELSE \* await new Promise((resolve) => setTimeout(resolve, totalDelay))
            /\ \E jitter \in JitterValues :
                    totalDelay' = TotalDelay(baseDelay, attempt, jitter)
            /\ Log(LogLine("info", "Retrying after delay", attempt + 1, ErrorType(error)))
            /\ delayCount' = delayCount + 1
            /\ rpc' = "delay"
            /\ UNCHANGED retryOutcome
    /\ UNCHANGED <<maxRetries, baseDelay, attempt, calls, logger>>

\* mutant: the promise of the backoff timer never resolves
TimerNeverFires ==
    /\ rpc = "delay"
    /\ UNCHANGED retryVars

\* The backoff timer fires: attempt++ and back to the loop test.
TimerFires ==
    /\ rpc = "delay"
    /\ attempt' = attempt + 1
    /\ rpc' = "loop"
    /\ UNCHANGED <<maxRetries, baseDelay, lastError, calls, failures, delayCount,
                   totalDelay, retryOutcome, logger, logged>>

(***************************************************************************)
(* withRetry, the earlier version without the logger parameter: its steps  *)
(* over the variables it has                                               *)
(***************************************************************************)
\* for (...; attempt <= maxRetries; ...) { try { return await fn()
InvokeFnV1 ==
    /\ rpc = "loop"
    /\ attempt <= maxRetries
    /\ calls' = calls + 1
    /\ rpc' = "await_fn"
    /\ UNCHANGED <<maxRetries, baseDelay, attempt, lastError, failures, delayCount,
                   totalDelay, retryOutcome>>

\* throw lastError || new Error('Retry failed with unknown error')
LoopExitV1 ==
    /\ rpc = "loop"
    /\ ~(attempt <= maxRetries)
    /\ retryOutcome' = (IF lastError.set THEN ErrorOutcome(lastError.from, lastError.err)
                        ELSE [kind |-> "generic", from |-> 0, err |-> GenericRetryError])
    /\ rpc' = "rejected"
    /\ UNCHANGED <<maxRetries, baseDelay, attempt, lastError, calls, failures,
                   delayCount, totalDelay>>

FnResolvesV1 ==
    /\ rpc = "await_fn"
    /\ retryOutcome' = ResultOutcome(calls)
    /\ rpc' = "resolved"
    /\ UNCHANGED <<maxRetries, baseDelay, attempt, lastError, calls, failures,
                   delayCount, totalDelay>>

\* the catch block
FnRejectsV1(error, jitter) ==
    /\ rpc = "await_fn"
    /\ failures' = failures + 1
    /\ lastError' = [set |-> TRUE, from |-> calls, err |-> error]
    /\ IF ~isRateLimitError(error) /\ ~isServerError(error)
       THEN /\ retryOutcome' = ErrorOutcome(calls, error)
            /\ rpc' = "rejected"
            /\ UNCHANGED <<delayCount, totalDelay>>
       ELSE IF attempt = maxRetries
       THEN /\ retryOutcome' = ErrorOutcome(calls, error)
            /\ rpc' = "rejected"
            /\ UNCHANGED <<delayCount, totalDelay>>
       ELSE /\ totalDelay' = baseDelay * Pow2(attempt) + jitter
            /\ delayCount' = delayCount + 1
            /\ rpc' = "delay"
            /\ UNCHANGED retryOutcome
    /\ UNCHANGED <<maxRetries, baseDelay, attempt, calls>>

TimerFiresV1 ==
    /\ rpc = "delay"
    /\ attempt' = attempt + 1
    /\ rpc' = "loop"
    /\ UNCHANGED <<maxRetries, baseDelay, lastError, calls, failures, delayCount,
                   totalDelay, retryOutcome>>

\* a step of the earlier version
NextV1 ==
    \/ InvokeFnV1
    \/ LoopExitV1
    \/ FnResolvesV1
    \/ \E error \in ErrorShapes, jitter \in JitterValues : FnRejectsV1(error, jitter)
    \/ TimerFiresV1

(***************************************************************************)
(* wrapSdkCallback                                                         *)
(*                                                                         *)
(* Callback arguments are named by tags.  error is an Error object, null   *)
(* or undefined; result is undefined, one of the falsy values that are     *)
(* not undefined, or an object.  Results are plain data (no thenables).    *)
(***************************************************************************)
MaxCallbacks == 2

CbErrors == {"null", "undefined", "ErrA", "ErrB"}
CbResults == {"undefined", "null", "false", "zero", "empty", "objA", "objB"}

\* JavaScript truthiness of a tagged value
Truthy(v) == v \notin {"undefined", "null", "false", "zero", "empty"}

NoCall == [error |-> "none", result |-> "none"]
NoValue == [kind |-> "none", val |-> "none"]

\* mutant: a later settlement overwrites an earlier one
settleOverwrite(p, state, value) == [state |-> state, value |-> value]

\* The resolve and reject functions of `new Promise`: they settle a pending
\* promise p = [state, value] and leave a settled one alone.
settle(p, state, value) ==
    IF p.state = "pending" THEN [state |-> state, value |-> value] ELSE p

\* resolve(result)
resolve(p, result) == settle(p, "fulfilled", [kind |-> "result", val |-> result])

\* reject(error)
reject(p, error) == settle(p, "rejected", [kind |-> "error", val |-> error])

\* mutant: the result is tested for truthiness instead of !== undefined
callbackTruthyResult(p, error, result) ==
    IF Truthy(error) THEN reject(p, error)
    ELSE IF Truthy(result) THEN resolve(p, result)
    ELSE reject(p, "NoResultError")

\* the callback handed to fn: (error, result) => { ... }
callback(p, error, result) ==
    IF Truthy(error) THEN reject(p, error)
    ELSE IF result # "undefined" THEN resolve(p, result)
    ELSE reject(p, "NoResultError")

\* wrapSdkCallback has returned its promise and fn is running or has returned
WrapInit ==
    /\ promiseState = "pending"
    /\ promiseValue = NoValue
    /\ cbCount = 0
    /\ fnThrew = FALSE
    /\ firstCall = NoCall
    /\ lastCall = NoCall

WrapIdle ==
    /\ promiseState = "idle"
    /\ promiseValue = NoValue
    /\ cbCount = 0
    /\ fnThrew = FALSE
    /\ firstCall = NoCall
    /\ lastCall = NoCall

\* The SDK invokes the callback with (error, result).
CallbackInvoked(error, result) ==
    /\ promiseState # "idle"
    /\ cbCount < MaxCallbacks
    /\ LET p == callback([state |-> promiseState, value |-> promiseValue], error, result)
       IN /\ promiseState' = p.state
          /\ promiseValue' = p.value
    /\ cbCount' = cbCount + 1
    /\ firstCall' = IF cbCount = 0 THEN [error |-> error, result |-> result] ELSE firstCall
    /\ lastCall' = [error |-> error, result |-> result]
    /\ UNCHANGED fnThrew

\* fn throws synchronously: the Promise constructor rejects with the thrown value.
FnThrows(error) ==
    /\ promiseState # "idle"
    /\ ~fnThrew
    /\ LET p == settle([state |-> promiseState, value |-> promiseValue], "rejected",
                       [kind |-> "thrown", val |-> error])
       IN /\ promiseState' = p.state
          /\ promiseValue' = p.value
    /\ fnThrew' = TRUE
    /\ UNCHANGED <<cbCount, firstCall, lastCall>>

(***************************************************************************)
(* sanitizeError                                                           *)
(***************************************************************************)
StrUnknownError == <<"U", "n", "k", "n", "o", "w", "n", " ", "e", "r", "r", "o", "r", " ", "o", "c", "c", "u", "r", "r", "e", "d">>
StrMessage == <<"m", "e", "s", "s", "a", "g", "e">>

\* \s of the regular expressions
IsSpace(c) == c \in {" ", "\t", "\n", "\r"}

\* [^\s,}] of the regular expressions
IsValueChar(c) == ~IsSpace(c) /\ c \notin {",", "}"}

\* The ordered replacements.  Each pattern is
\*   pre [opt]? post [seps] \s* [^\s,}]+   with flags g and i,
\* pre and post given in lower case.
Pattern(pre, opt, post, seps, repl) ==
    [pre |-> pre, opt |-> opt, post |-> post, seps |-> seps, repl |-> repl]

CredentialPatterns == <<
    Pattern(<<"a", "p", "i", "k", "e", "y">>, {}, <<>>, {"=", ":"}, <<"a", "p", "i", "K", "e", "y", "=", "*", "*", "*">>),
    Pattern(<<"a", "p", "i", "s", "e", "c", "r", "e", "t">>, {}, <<>>, {"=", ":"}, <<"a", "p", "i", "S", "e", "c", "r", "e", "t", "=", "*", "*", "*">>),
    Pattern(<<"a", "p", "i">>, {"_", "-"}, <<"k", "e", "y">>, {"=", ":"}, <<"a", "p", "i", "_", "k", "e", "y", "=", "*", "*", "*">>),
    Pattern(<<"a", "p", "i">>, {"_", "-"}, <<"s", "e", "c", "r", "e", "t">>, {"=", ":"}, <<"a", "p", "i", "_", "s", "e", "c", "r", "e", "t", "=", "*", "*", "*">>),
    Pattern(<<"p", "a", "s", "s", "w", "o", "r", "d">>, {}, <<>>, {"=", ":"}, <<"p", "a", "s", "s", "w", "o", "r", "d", "=", "*", "*", "*">>),
    Pattern(<<"t", "o", "k", "e", "n">>, {}, <<>>, {"=", ":"}, <<"t", "o", "k", "e", "n", "=", "*", "*", "*">>),
    Pattern(<<"a", "u", "t", "h", "o", "r", "i", "z", "a", "t", "i", "o", "n">>, {}, <<>>, {":"}, <<"a", "u", "t", "h", "o", "r", "i", "z", "a", "t", "i", "o", "n", ":", " ", "*", "*", "*">>),
    Pattern(<<"s", "s", "-", "a", "p", "i", "-", "k", "e", "y">>, {}, <<>>, {":"}, <<"s", "s", "-", "a", "p", "i", "-", "k", "e", "y", ":", " ", "*", "*", "*">>) >>

\* the literal lit (lower case) occurs in s at i, ignoring case
LiteralAt(s, lit, i) ==
    /\ i + Len(lit) - 1 <= Len(s)
    /\ \A j \in 1..Len(lit) : LowerChar(s[i + j - 1]) = lit[j]

RECURSIVE SkipSpaces(_, _)
\* \s* (greedy): the first position from i on that holds no white space
SkipSpaces(s, i) ==
    IF i <= Len(s) /\ IsSpace(s[i]) THEN SkipSpaces(s, i + 1) ELSE i

RECURSIVE SkipValue(_, _)
\* [^\s,}]+ (greedy): the first position from i on that holds no value character
SkipValue(s, i) ==
    IF i <= Len(s) /\ IsValueChar(s[i]) THEN SkipValue(s, i + 1) ELSE i

\* The position after the match of pat that starts at i, or 0 when pat does not
\* match at i.  The character classes that follow one another are disjoint, so
\* the greedy choice is the only one that can succeed.
MatchEnd(s, i, pat) ==
    IF ~LiteralAt(s, pat.pre, i) THEN 0
    ELSE LET p1 == i + Len(pat.pre)
             p2 == IF p1 <= Len(s) /\ s[p1] \in pat.opt THEN p1 + 1 ELSE p1
         IN IF ~LiteralAt(s, pat.post, p2) THEN 0
            ELSE LET p3 == p2 + Len(pat.post)
                 IN IF ~(p3 <= Len(s) /\ s[p3] \in pat.seps) THEN 0
                    ELSE LET p5 == SkipSpaces(s, p3 + 1)
                             p6 == SkipValue(s, p5)
                         IN IF p6 > p5 THEN p6 ELSE 0

\* the leftmost position from i on at which pat matches, 0 when there is none
NextMatch(s, i, pat) ==
    LET starts == {j \in i..Len(s) : MatchEnd(s, j, pat) > 0}
    IN IF starts = {} THEN 0 ELSE CHOOSE j \in starts : \A m \in starts : j <= m

RECURSIVE ReplaceFrom(_, _, _)
\* message.replace(pat, repl) from position i on: leftmost matches, not overlapping
ReplaceFrom(s, i, pat) ==
    LET j == NextMatch(s, i, pat)
    IN IF j = 0 THEN SubSeq(s, i, Len(s))
       ELSE SubSeq(s, i, j - 1) \o pat.repl \o ReplaceFrom(s, MatchEnd(s, j, pat), pat)

\* message = message.replace(/.../gi, '...')
replace(s, pat) == ReplaceFrom(s, 1, pat)

RECURSIVE ApplyPatterns(_, _, _)
\* the replacements number k, k+1, ... of pats applied in order
ApplyPatterns(s, pats, k) ==
    IF k > Len(pats) THEN s ELSE ApplyPatterns(replace(s, pats[k]), pats, k + 1)

\* An error value: kind is "null" (null or undefined), "string", "Error"
\* (instanceof Error) or "object"; fields are the own properties of an object,
\* a sequence of <<key, value>> with string values.
ErrorValue(kind, message, fields) == [kind |-> kind, message |-> message, fields |-> fields]

RECURSIVE FieldsToJson(_, _)
FieldsToJson(fields, k) ==
    IF k > Len(fields) THEN <<>>
    ELSE (IF k > 1 THEN <<",">> ELSE <<>>)
         \o <<"\"">> \o fields[k][1] \o <<"\"", ":", "\"">> \o fields[k][2] \o <<"\"">>
         \o FieldsToJson(fields, k + 1)

\* JSON.stringify of an object whose properties are strings free of characters
\* that need escaping
JSONstringify(fields) == <<"{">> \o FieldsToJson(fields, 1) \o <<"}">>

\* error.message of an object: the value of its message property, <<>> if it
\* has none (undefined and '' are both falsy in `else if (error.message)`)
ObjectMessage(fields) ==
    IF \E k \in 1..Len(fields) : fields[k][1] = StrMessage
    THEN fields[CHOOSE k \in 1..Len(fields) : fields[k][1] = StrMessage][2]
    ELSE <<>>

\* the message sanitizeError extracts before the replacements
ExtractMessage(error) ==
    IF error.kind = "Error" THEN error.message
    ELSE IF error.kind = "string" THEN error.message
    ELSE IF ObjectMessage(error.fields) # <<>> THEN ObjectMessage(error.fields)
    ELSE JSONstringify(error.fields)

\* if (!error): null, undefined and the empty string are falsy
Falsy(error) == error.kind = "null" \/ (error.kind = "string" /\ error.message = <<>>)

\* the replacement of the authorization pattern spelt with an auth scheme
CredentialPatternsBearer ==
    [CredentialPatterns EXCEPT ![7].repl =
        <<"a", "u", "t", "h", "o", "r", "i", "z", "a", "t", "i", "o", "n", ":", " ", "B", "e", "a", "r", "e", "r", " ", "*", "*", "*">>]

\* sanitizeError with the replacement texts of CredentialPatternsBearer
sanitizeErrorBearer(error) ==
    IF Falsy(error) THEN StrUnknownError
    ELSE ApplyPatterns(ExtractMessage(error), CredentialPatternsBearer, 1)

sanitizeError(error) ==
    IF Falsy(error) THEN StrUnknownError
    ELSE ApplyPatterns(ExtractMessage(error), CredentialPatterns, 1)

\* ---- inputs of the model ----
MaxSecretLen == 2

\* the redacted field names as they appear in messages
FieldNames == {<<"a", "p", "i", "K", "e", "y">>, <<"a", "p", "i", "S", "e", "c", "r", "e", "t">>, <<"a", "p", "i", "_", "k", "e", "y">>, <<"a", "p", "i", "_", "s", "e", "c", "r", "e", "t">>,
               <<"p", "a", "s", "s", "w", "o", "r", "d">>, <<"t", "o", "k", "e", "n">>, <<"a", "u", "t", "h", "o", "r", "i", "z", "a", "t", "i", "o", "n">>, <<"s", "s", "-", "a", "p", "i", "-", "k", "e", "y">>}
Separators == {<<"=">>, <<":", " ">>}
SecretChars == {"x", "7", " ", ",", "}"}

\* secrets: up to MaxSecretLen characters, at least one of them no delimiter
Secrets ==
    {w \in UNION {[1..n -> SecretChars] : n \in 1..MaxSecretLen} :
        \E k \in 1..Len(w) : IsValueChar(w[k])}

NoForm == [name |-> <<>>, sep |-> <<>>, secret |-> <<>>]

StrExample == <<"a", "p", "i", "K", "e", "y", "=", "a", "b", "c", "1", "2", "3", " ", "f", "a", "i", "l", "e", "d">>
StrSecretAbc == <<"a", "b", "c", "1", "2", "3">>

\* messages that are not of the form name, separator, secret
FreeMessages == {StrExample, StrNoResult, <<>>,
                 <<"A", "u", "t", "h", "o", "r", "i", "z", "a", "t", "i", "o", "n", ":", " ", "B", "e", "a", "r", "e", "r", " ", "x", "7", ",", " ", "t", "o", "k", "e", "n", "=", "x", "7", "}">>,
                 <<"s", "s", "-", "a", "p", "i", "-", "k", "e", "y", ":", " ", "x", "7", " ", "A", "P", "I", "_", "S", "E", "C", "R", "E", "T", ":", " ", " ", "x", "7">>}

FreeObjects == {<< <<<<"a", "p", "i", "K", "e", "y">>, <<"x", "7">>>> >>,
                << <<StrMessage, <<>> >>, <<<<"t", "o", "k", "e", "n">>, <<"x", "7">>>> >>}

\* two fields in one message, joined by nothing, a space or a comma
PairDelimiters == {<<>>, <<" ">>, <<",">>}
PairMessages ==
    {n1 \o sep \o <<"x", "7">> \o d \o n2 \o sep \o <<"x">> :
        n1 \in FieldNames, n2 \in FieldNames, sep \in Separators, d \in PairDelimiters}

\* wrap a message as each kind of error value that carries one
AsErrorValues(m) ==
    {ErrorValue("string", m, <<>>), ErrorValue("Error", m, <<>>),
     ErrorValue("object", <<>>, << <<StrMessage, m>> >>)}

SanInit ==
    /\ spc = "ready"
    /\ sanOutput = <<>>
    /\ sanAgain = <<>>
    /\ \/ \E name \in FieldNames, sep \in Separators, secret \in Secrets :
            /\ sanForm = [name |-> name, sep |-> sep, secret |-> secret]
            /\ sanInput \in AsErrorValues(name \o sep \o secret)
       \/ /\ sanForm = NoForm
          /\ sanInput \in UNION {AsErrorValues(m) : m \in FreeMessages}
                          \cup {ErrorValue("object", <<>>, f) : f \in FreeObjects}
                          \cup {ErrorValue("null", <<>>, <<>>)}
                          \cup {ErrorValue("string", m, <<>>) : m \in PairMessages}

SanIdle ==
    /\ spc = "idle"
    /\ sanInput = ErrorValue("null", <<>>, <<>>)
    /\ sanForm = NoForm
    /\ sanOutput = <<>>
    /\ sanAgain = <<>>

\* sanitizeError(sanInput) returns.
SanitizeCall ==
    /\ spc = "ready"
    /\ sanOutput' = sanitizeError(sanInput)
    /\ spc' = "done"
    /\ UNCHANGED <<sanInput, sanForm, sanAgain>>

\* sanitizeError(<the string returned before>) returns.
SanitizeAgain ==
    /\ spc = "done"
    /\ sanAgain' = sanitizeError(ErrorValue("string", sanOutput, <<>>))
    /\ spc' = "again"
    /\ UNCHANGED <<sanInput, sanForm, sanOutput>>

(***************************************************************************)
(* execute (src/nodes/SendSafely/SendSafely.node.ts; src/unnamed/part_000  *)
(* is the same loop with logging added)                                    *)
(***************************************************************************)
MaxItems == 3
MaxListLen == 2

StrNoCredentials == <<"N", "o", " ", "c", "r", "e", "d", "e", "n", "t", "i", "a", "l", "s", " ", "r", "e", "t", "u", "r", "n", "e", "d", " ", "f", "r", "o", "m", " ", "g", "e", "t", "C", "r", "e", "d", "e", "n", "t", "i", "a", "l", "s">>
StrMissingCredentials == <<"M", "i", "s", "s", "i", "n", "g", " ", "r", "e", "q", "u", "i", "r", "e", "d", " ", "c", "r", "e", "d", "e", "n", "t", "i", "a", "l", "s", ":", " ", "b", "a", "s", "e", "U", "r", "l", ",", " ", "a", "p", "i", "K", "e", "y", ",", " ", "o", "r", " ", "a", "p", "i", "S", "e", "c", "r", "e", "t">>
StrFailedToInitialize == <<"F", "a", "i", "l", "e", "d", " ", "t", "o", " ", "i", "n", "i", "t", "i", "a", "l", "i", "z", "e", " ", "S", "e", "n", "d", "S", "a", "f", "e", "l", "y", " ", "c", "l", "i", "e", "n", "t", ":", " ">>
StrTheResource == <<"T", "h", "e", " ", "r", "e", "s", "o", "u", "r", "c", "e", " ", "\"">>
StrTheOperation == <<"T", "h", "e", " ", "o", "p", "e", "r", "a", "t", "i", "o", "n", " ", "\"">>
StrIsNotSupported == <<"\"", " ", "i", "s", " ", "n", "o", "t", " ", "s", "u", "p", "p", "o", "r", "t", "e", "d">>
StrForResource == <<" ", "f", "o", "r", " ", "r", "e", "s", "o", "u", "r", "c", "e", " ", "\"">>
StrQuote == <<"\"">>
StrServiceUnavailable == <<"S", "e", "r", "v", "i", "c", "e", " ", "u", "n", "a", "v", "a", "i", "l", "a", "b", "l", "e">>
StrUnauthorized == <<"U", "n", "a", "u", "t", "h", "o", "r", "i", "z", "e", "d", ":", " ", "t", "o", "k", "e", "n", "=", "x", "7">>
StrInvalidBaseUrl == <<"i", "n", "v", "a", "l", "i", "d", " ", "b", "a", "s", "e", "U", "r", "l", ",", " ", "a", "p", "i", "K", "e", "y", ":", " ", "x", "7">>
StrNoBinaryData == <<"N", "o", " ", "b", "i", "n", "a", "r", "y", " ", "d", "a", "t", "a">>

\* the characters of the resource and operation names
NameChars ==
    "package" :> <<"p", "a", "c", "k", "a", "g", "e">> @@
    "file" :> <<"f", "i", "l", "e">> @@
    "recipient" :> <<"r", "e", "c", "i", "p", "i", "e", "n", "t">> @@
    "folder" :> <<"f", "o", "l", "d", "e", "r">> @@
    "create" :> <<"c", "r", "e", "a", "t", "e">> @@
    "get" :> <<"g", "e", "t">> @@
    "finalize" :> <<"f", "i", "n", "a", "l", "i", "z", "e">> @@
    "delete" :> <<"d", "e", "l", "e", "t", "e">> @@
    "list" :> <<"l", "i", "s", "t">> @@
    "update" :> <<"u", "p", "d", "a", "t", "e">> @@
    "upload" :> <<"u", "p", "l", "o", "a", "d">> @@
    "download" :> <<"d", "o", "w", "n", "l", "o", "a", "d">> @@
    "add" :> <<"a", "d", "d">> @@
    "addMultiple" :> <<"a", "d", "d", "M", "u", "l", "t", "i", "p", "l", "e">> @@
    "remove" :> <<"r", "e", "m", "o", "v", "e">> @@
    "archive" :> <<"a", "r", "c", "h", "i", "v", "e">>

\* the operations each handler has a branch for
PackageOperations == {"create", "get", "finalize", "delete", "list", "update"}
FileOperations == {"upload", "download", "delete", "list"}
RecipientOperations == {"add", "remove", "list"}

\* the resources execute has a branch for
Resources == {"package", "file", "recipient"}

\* values of the resource and operation parameters: the ones the node offers
\* and some it does not
Selections ==
    {<<"package", o>> : o \in PackageOperations}
    \cup {<<"file", o>> : o \in FileOperations}
    \cup {<<"recipient", o>> : o \in RecipientOperations \cup {"addMultiple"}}
    \cup {<<"folder", "get">>, <<"package", "archive">>, <<"file", "add">>}

\* a selection other than s, for the items after the first
OtherSelection(s) == IF s = <<"package", "get">> THEN <<"file", "list">> ELSE <<"package", "get">>

\* this.getCredentials('sendSafelyApi'): nothing, an object that lacks one of
\* baseUrl, apiKey, apiSecret, or a complete one
CredentialValues == {"none", "incomplete", "complete"}

\* a NodeOperationError (an Error) with the given message
NodeOperationError(message) == MkError(FALSE, 0, TRUE, message)

\* errors the SDK passes to its callback: one withRetry retries, one it does not
ErrUnavailable == MkError(TRUE, 503, TRUE, StrServiceUnavailable)
ErrUnauthorized == MkError(TRUE, 401, TRUE, StrUnauthorized)
SdkErrors == {ErrUnavailable, ErrUnauthorized}

\* what the SendSafely constructor throws when it throws
ConstructorErrors == {MkError(FALSE, 0, TRUE, StrInvalidBaseUrl)}

\* the error as sanitizeError sees it
Caught(error) == ErrorValue("Error", error.message, <<>>)

\* What a handler does for one item: whether it has a branch for the
\* operation, the parameters it reads before its SDK calls (in order), the SDK
\* methods it calls in order, the parameters it reads after them, and whether
\* the value it returns is an array.
HandlerPlan(supported, reads, methods, readsAfter, array) ==
    [supported |-> supported, reads |-> reads, calls |-> methods,
     readsAfter |-> readsAfter, array |-> array]

\* mutant: an operation without a branch falls through to getPackageInformation
NoBranchFallsThrough == [supported |-> TRUE, reads |-> <<"packageId">>,
                         calls |-> <<"getPackageInformation">>, readsAfter |-> <<>>, array |-> FALSE]

\* the final else branch of a handler: throw 'The operation ... is not supported'
NoBranch == HandlerPlan(FALSE, <<>>, <<>>, <<>>, FALSE)

\* mutant: the package information is fetched before the updates are made
UpdateCallsInfoFirst(updateFields) ==
    <<"getPackageInformation">>
    \o (IF "life" \in updateFields THEN <<"updatePackageLife">> ELSE <<>>)
    \o (IF "label" \in updateFields THEN <<"updatePackageDescriptor">> ELSE <<>>)

\* the SDK calls of the update branch: if (updateFields.life) ...; if
\* (updateFields.label) ...; then getPackageInformation
UpdateCalls(updateFields) ==
    (IF "life" \in updateFields THEN <<"updatePackageLife">> ELSE <<>>)
    \o (IF "label" \in updateFields THEN <<"updatePackageDescriptor">> ELSE <<>>)
    \o <<"getPackageInformation">>

\* updateFields is the set of the truthy properties of the updateFields parameter
executePackageOperation(op, updateFields) ==
    IF op = "create" THEN HandlerPlan(TRUE, <<"vdr">>, <<"createPackage">>, <<>>, FALSE)
    ELSE IF op = "get" THEN HandlerPlan(TRUE, <<"packageId">>, <<"getPackageInformation">>, <<>>, FALSE)
    ELSE IF op = "finalize"
    THEN HandlerPlan(TRUE, <<"packageId", "undisclosedRecipients">>, <<"finalizePackage">>, <<>>, FALSE)
    ELSE IF op = "delete" THEN HandlerPlan(TRUE, <<"packageId">>, <<"deletePackage">>, <<>>, FALSE)
    ELSE IF op = "list" THEN HandlerPlan(TRUE, <<"returnAll", "limit">>, <<"getPackages">>, <<>>, TRUE)
    ELSE IF op = "update"
    THEN HandlerPlan(TRUE, <<"packageId", "updateFields">>, UpdateCalls(updateFields),
                     <<>>, FALSE)
    ELSE NoBranch

executeFileOperation(op) ==
    IF op = "upload" THEN HandlerPlan(TRUE, <<"packageId", "binaryPropertyName">>, <<"uploadFile">>, <<>>, FALSE)
    ELSE IF op = "download"
    THEN HandlerPlan(TRUE, <<"packageId", "fileId", "packageCode">>, <<"downloadFile">>,
                     <<"binaryPropertyName">>, FALSE)
    ELSE IF op = "delete" THEN HandlerPlan(TRUE, <<"packageId", "fileId">>, <<"deleteFile">>, <<>>, FALSE)
    ELSE IF op = "list" THEN HandlerPlan(TRUE, <<"packageId">>, <<"getPackageInformation">>, <<>>, TRUE)
    ELSE NoBranch

executeRecipientOperation(op) ==
    IF op = "add" THEN HandlerPlan(TRUE, <<"packageId", "email">>, <<"addRecipient">>, <<>>, FALSE)
    ELSE IF op = "remove"
    THEN HandlerPlan(TRUE, <<"packageId", "recipientId">>, <<"removeRecipient">>, <<>>, FALSE)
    ELSE IF op = "list" THEN HandlerPlan(TRUE, <<"packageId">>, <<"getPackageInformation">>, <<>>, TRUE)
    ELSE NoBranch

\* the handler execute routes the resource to
Handler(res, op, updateFields) ==
    IF res = "package" THEN executePackageOperation(op, updateFields)
    ELSE IF res = "file" THEN executeFileOperation(op)
    ELSE executeRecipientOperation(op)

\* `The resource "${resource}" is not supported`
UnsupportedResourceError(res) ==
    NodeOperationError(StrTheResource \o NameChars[res] \o StrIsNotSupported)

\* `The operation "${operation}" is not supported for resource "<resource>"`
UnsupportedOperationError(op, res) ==
    NodeOperationError(StrTheOperation \o NameChars[op] \o StrIsNotSupported
                       \o StrForResource \o NameChars[res] \o StrQuote)

\* getSendSafelyClient: the error it throws, or none when it constructs the
\* client; ctor is how the SendSafely constructor ends ("ok" or an error)
NoError == [thrown |-> FALSE, error |-> MkError(FALSE, 0, FALSE, <<>>)]
Throws(error) == [thrown |-> TRUE, error |-> error]

\* mutant: only the absence of the credentials object is tested
ReachesConstructorUnchecked(creds) == creds # "none"

\* whether getSendSafelyClient reaches `new SendSafely(...)`
ReachesConstructor(creds) == creds = "complete"

getSendSafelyClient(creds, ctorOk, ctorError) ==
    IF creds = "none" THEN Throws(NodeOperationError(StrNoCredentials))
    ELSE IF ~ReachesConstructor(creds) THEN Throws(NodeOperationError(StrMissingCredentials))
    ELSE IF ctorOk THEN NoError
    ELSE Throws(NodeOperationError(StrFailedToInitialize \o sanitizeError(Caught(ctorError))))

\* output entries; source (the item the entry was made for) and cause (the
\* error caught) are history, not fields of the entry
NoPairedItem == [set |-> FALSE, item |-> 0]
PairedItem(k) == [set |-> TRUE, item |-> k]
NoCause == MkError(FALSE, 0, FALSE, <<>>)

\* { json: responseData } and { json: item }
ResultEntry(value, k) ==
    [hasError |-> FALSE, error |-> <<>>, pairedItem |-> NoPairedItem, source |-> k,
     cause |-> NoCause, data |-> value.origin]

\* mutant: the error entry is pushed without pairedItem
ErrorEntryUnpaired(error, k) ==
    [hasError |-> TRUE, error |-> sanitizeError(Caught(error)), pairedItem |-> NoPairedItem,
     source |-> k, cause |-> error, data |-> {}]

\* { json: { error: sanitizeError(error) }, pairedItem: { item: i } }
ErrorEntry(error, k) ==
    [hasError |-> TRUE, error |-> sanitizeError(Caught(error)), pairedItem |-> PairedItem(k),
     source |-> k, cause |-> error, data |-> {}]

\* new NodeOperationError(this.getNode(), sanitizeError(error), { itemIndex: i })
NothingThrown == [set |-> FALSE, message |-> <<>>, itemIndex |-> 0, cause |-> NoCause]
ThrownError(error, k) ==
    [set |-> TRUE, message |-> sanitizeError(Caught(error)), itemIndex |-> k, cause |-> error]

\* the value of responseData: undefined, an object, or an array of len
\* elements; origin is the item whose handler call returned the value
Undefined == [kind |-> "undefined", len |-> 0, origin |-> {}]
ObjectValue == [kind |-> "object", len |-> 0, origin |-> {}]
ArrayValue(n) == [kind |-> "array", len |-> n, origin |-> {}]

\* responseData = await execute...Operation.call(this, client, operation, i)
ReturnedFor(value, k) == [value EXCEPT !.origin = {k}]

RECURSIVE Repeat(_, _)
Repeat(e, n) == IF n <= 0 THEN <<>> ELSE <<e>> \o Repeat(e, n - 1)

\* mutant: the entries are put in front of returnData
PushResponseFront(rd, value, k) ==
    IF value.kind = "array" THEN Repeat(ResultEntry(value, k), value.len) \o rd
    ELSE <<ResultEntry(value, k)>> \o rd

\* if (Array.isArray(responseData)) push one entry per element, else push one entry
PushResponse(rd, value, k) ==
    IF value.kind = "array" THEN rd \o Repeat(ResultEntry(value, k), value.len)
    ELSE Append(rd, ResultEntry(value, k))

Min(a, b) == IF a < b THEN a ELSE b

\* values of the limit parameter: one below the number of packages, and the default
LimitValues == {1, 50}

\* something done for item k: "client" (new SendSafely), "withRetry" (withRetry
\* entered), "sdk" (an SDK method invoked), "delay" (a backoff timer started),
\* "empty" (the SDK called back with neither error nor result)
Event(kind, k) == <<kind, k>>

\* The items after the first are configured with another resource and
\* operation than the first.
ExecInit ==
    /\ nItems \in 1..MaxItems
    /\ continueOnFail \in BOOLEAN
    /\ credentials \in CredentialValues
    /\ \E s \in Selections :
          parameters = [k \in 0..(nItems - 1) |-> IF k = 0 THEN s ELSE OtherSelection(s)]
    /\ resource = "unread"
    /\ operation = "unread"
    /\ itemIndex = 0
    /\ epc = "start"
    /\ returnData = <<>>
    /\ responseData = Undefined
    /\ thrown = NothingThrown
    /\ plan = NoBranch
    /\ callIndex = 0
    /\ retryAttempt = 0
    /\ outstanding = 0
    /\ events = {}
    /\ paramReads = <<>>
    /\ lookups = [k \in 0..(nItems - 1) |-> 0]

ExecIdle ==
    /\ nItems = 1
    /\ continueOnFail = FALSE
    /\ credentials = "complete"
    /\ parameters = [k \in {0} |-> <<"package", "get">>]
    /\ resource = "unread"
    /\ operation = "unread"
    /\ itemIndex = 0
    /\ epc = "idle"
    /\ returnData = <<>>
    /\ responseData = Undefined
    /\ thrown = NothingThrown
    /\ plan = NoBranch
    /\ callIndex = 0
    /\ retryAttempt = 0
    /\ outstanding = 0
    /\ events = {}
    /\ paramReads = <<>>
    /\ lookups = [k \in {0} |-> 0]

\* mutant: the handler reads its parameters at index 0
getNodeParameterFirst(names, k) == [n \in 1..Len(names) |-> <<names[n], 0>>]

\* this.getNodeParameter(name, itemIndex, ...) for each of the names, in order
getNodeParameter(names, k) == [n \in 1..Len(names) |-> <<names[n], k>>]

\* what no step of execute changes
batchVars == <<nItems, continueOnFail, credentials, parameters>>

\* this.getNodeParameter('resource', 0); this.getNodeParameter('operation', 0)
ReadSelection ==
    /\ epc = "start"
    /\ resource' = parameters[0][1]
    /\ operation' = parameters[0][2]
    /\ paramReads' = paramReads \o getNodeParameter(<<"resource", "operation">>, 0)
    /\ epc' = "loop"
    /\ UNCHANGED <<batchVars, itemIndex, returnData, responseData, thrown, plan, callIndex,
                   retryAttempt, outstanding, events, lookups>>

\* the handler called for the item, and the withRetry call inside it, are over
HandlerLeft ==
    /\ plan' = NoBranch
    /\ callIndex' = 0
    /\ retryAttempt' = 0

\* mutant: with continue-on-fail the catch block also appends what responseData holds
CatchBlockPushesStale(error) ==
    /\ HandlerLeft
    /\ IF continueOnFail
       THEN /\ returnData' = PushResponse(Append(returnData, ErrorEntry(error, itemIndex)),
                                          responseData, itemIndex)
            /\ itemIndex' = itemIndex + 1
            /\ epc' = "loop"
            /\ thrown' = thrown
       ELSE /\ thrown' = ThrownError(error, itemIndex)
            /\ epc' = "thrown"
            /\ returnData' = returnData
            /\ itemIndex' = itemIndex

\* mutant: the catch block appends an error entry whatever continueOnFail() says
CatchBlockAlwaysContinues(error) ==
    /\ HandlerLeft
    /\ returnData' = Append(returnData, ErrorEntry(error, itemIndex))
    /\ itemIndex' = itemIndex + 1
    /\ epc' = "loop"
    /\ thrown' = thrown

\* The catch block of the loop, for the error caught while item i is processed:
\* with continue-on-fail an error entry is appended and the loop goes on, without
\* it execute throws.
CatchBlock(error) ==
    /\ HandlerLeft
    /\ IF continueOnFail
       THEN /\ returnData' = Append(returnData, ErrorEntry(error, itemIndex))
            /\ itemIndex' = itemIndex + 1
            /\ epc' = "loop"
            /\ thrown' = thrown
       ELSE /\ thrown' = ThrownError(error, itemIndex)
            /\ epc' = "thrown"
            /\ returnData' = returnData
            /\ itemIndex' = itemIndex

\* Loop test passed; await getSendSafelyClient.call(this).
GetClient ==
    /\ epc = "loop"
    /\ itemIndex < nItems
    /\ lookups' = [lookups EXCEPT ![itemIndex] = @ + 1]
    /\ \E ctorOk \in BOOLEAN, ctorError \in ConstructorErrors :
          LET r == getSendSafelyClient(credentials, ctorOk, ctorError)
          IN IF r.thrown
             THEN /\ CatchBlock(r.error)
                  /\ events' = events
             ELSE /\ events' = events \cup {Event("client", itemIndex)}
                  /\ epc' = "dispatch"
                  /\ UNCHANGED <<returnData, itemIndex, thrown, plan, callIndex, retryAttempt>>
    /\ UNCHANGED <<batchVars, resource, operation, responseData, outstanding, paramReads>>

\* The if-chain on resource, and the chosen handler up to its first SDK call:
\* its parameter reads for the item and, for upload, assertBinaryData.
Dispatch ==
    /\ epc = "dispatch"
    /\ \E updateFields \in SUBSET {"life", "label"}, hasBinary \in BOOLEAN :
          IF resource \notin Resources
          THEN /\ CatchBlock(UnsupportedResourceError(resource))
               /\ paramReads' = paramReads
          ELSE LET h == Handler(resource, operation, updateFields)
               IN IF ~h.supported
                  THEN /\ CatchBlock(UnsupportedOperationError(operation, resource))
                       /\ paramReads' = paramReads
                  ELSE /\ paramReads' = paramReads \o getNodeParameter(h.reads, itemIndex)
                       /\ IF "uploadFile" \in {h.calls[c] : c \in 1..Len(h.calls)} /\ ~hasBinary
                          THEN CatchBlock(NodeOperationError(StrNoBinaryData))
                          ELSE /\ plan' = h
                               /\ callIndex' = 1
                               /\ epc' = "handler"
                               /\ UNCHANGED <<returnData, itemIndex, thrown, retryAttempt>>
    /\ UNCHANGED <<batchVars, resource, operation, responseData, outstanding, events, lookups>>

\* withRetry(async () => wrapSdkCallback((callback) => client.<method>(..., callback)))
\* is entered and makes its first attempt.
InvokeSdk ==
    /\ epc = "handler"
    /\ retryAttempt' = 0
    /\ outstanding' = outstanding + 1
    /\ events' = events \cup {Event("withRetry", itemIndex), Event("sdk", itemIndex)}
    /\ epc' = "sdk"
    /\ UNCHANGED <<batchVars, resource, operation, itemIndex, returnData, responseData,
                   thrown, plan, callIndex, paramReads, lookups>>

\* the value a list branch returns when the SDK has n elements to give:
\* packages or packages.slice(0, limit); packageInfo.files || []
ListValue(res, n, returnAll, limit) ==
    IF res = "package" /\ ~returnAll THEN ArrayValue(Min(n, limit)) ELSE ArrayValue(n)

\* The SDK calls back with a result.  When the handler has more calls to make
\* it goes on to the next one; otherwise it returns, and execute appends the
\* entries and moves to the next item.
SdkResolves ==
    /\ epc = "sdk"
    /\ outstanding' = outstanding - 1
    /\ IF callIndex < Len(plan.calls)
       THEN /\ callIndex' = callIndex + 1
            /\ retryAttempt' = 0
            /\ epc' = "handler"
            /\ UNCHANGED <<responseData, returnData, itemIndex, paramReads, plan>>
       ELSE /\ \E n \in 0..MaxListLen, returnAll \in BOOLEAN, limit \in LimitValues :
                  responseData' = ReturnedFor(IF plan.array
                                              THEN ListValue(resource, n, returnAll, limit)
                                              ELSE ObjectValue, itemIndex)
            /\ returnData' = PushResponse(returnData, responseData', itemIndex)
            /\ paramReads' = paramReads \o getNodeParameter(plan.readsAfter, itemIndex)
            /\ itemIndex' = itemIndex + 1
            /\ epc' = "loop"
            /\ HandlerLeft
    /\ UNCHANGED <<batchVars, resource, operation, thrown, events, lookups>>

\* mutant: the synthetic error carries the status of a rate limit
NoResultErrorRateLimited == MkError(TRUE, 429, TRUE, StrNoResult)

\* new Error('No result returned from SDK method')
NoResultError == MkError(FALSE, 0, TRUE, StrNoResult)

\* The promise of wrapSdkCallback rejects with error and the catch block of
\* withRetry runs: it starts a backoff timer when the error is retryable and
\* retries remain, and rejects with it otherwise.  seen is what the step adds
\* to the events of the item.
Rejected(error, seen) ==
    /\ epc = "sdk"
    /\ outstanding' = outstanding - 1
    /\ IF Retryable(error) /\ ~Exhausted(retryAttempt, DefaultMaxRetries)
       THEN /\ events' = events \cup seen \cup {Event("delay", itemIndex)}
            /\ epc' = "delay"
            /\ UNCHANGED <<returnData, itemIndex, thrown, plan, callIndex, retryAttempt>>
       ELSE /\ CatchBlock(error)
            /\ events' = events \cup seen
    /\ UNCHANGED <<batchVars, resource, operation, responseData, paramReads, lookups>>

\* The SDK calls back with an error.
SdkRejects(error) == Rejected(error, {})

\* The SDK calls back with neither an error nor a result: wrapSdkCallback
\* rejects with the synthetic error.
SdkCallsBackEmpty == Rejected(NoResultError, {Event("empty", itemIndex)})

\* The backoff timer fires: the next attempt invokes the SDK method again.
BackoffElapsed ==
    /\ epc = "delay"
    /\ retryAttempt' = retryAttempt + 1
    /\ outstanding' = outstanding + 1
    /\ epc' = "sdk"
    /\ UNCHANGED <<batchVars, resource, operation, itemIndex, returnData, responseData,
                   thrown, plan, callIndex, events, paramReads, lookups>>

\* Loop test failed: return [returnData].
Return ==
    /\ epc = "loop"
    /\ itemIndex >= nItems
    /\ epc' = "returned"
    /\ UNCHANGED <<batchVars, resource, operation, itemIndex, returnData, responseData,
                   thrown, plan, callIndex, retryAttempt, outstanding, events, paramReads,
                   lookups>>

(***************************************************************************)
(* execute of src/nodes/SendSafely/descriptions/RecipientDescription.ts    *)
(* (one call, for the item at position index); FileDescription.ts and      *)
(* PackageDescription.ts export an execute of the same shape               *)
(***************************************************************************)
MaxEmails == 3

StrInvalidEmailAddress == <<"I", "n", "v", "a", "l", "i", "d", " ", "e", "m", "a", "i", "l", " ", "a", "d", "d", "r", "e", "s", "s", ":", " ">>
StrInvalidEmailAddresses == <<"I", "n", "v", "a", "l", "i", "d", " ", "e", "m", "a", "i", "l", " ", "a", "d", "d", "r", "e", "s", "s", "e", "s", ":", " ">>
StrCommaSpace == <<",", " ">>
StrCannotReadBaseUrl == <<"C", "a", "n", "n", "o", "t", " ", "r", "e", "a", "d", " ", "p", "r", "o", "p", "e", "r", "t", "i", "e", "s", " ", "o", "f", " ", "u", "n", "d", "e", "f", "i", "n", "e", "d", " ", "(", "r", "e", "a", "d", "i", "n", "g", " ", "'", "b", "a", "s", "e", "U", "r", "l", "'", ")">>
StrGoodEmail == <<"a", "@", "b", ".", "c">>
StrBadEmail == <<"x", "7">>

\* the entries of the emails parameter after split, trim and filter
EmailValues == {StrGoodEmail, StrBadEmail}
EmailLists == UNION {[1..n -> EmailValues] : n \in 0..MaxEmails}

\* values of the operation parameter
RecipientSelections == {"add", "addMultiple", "remove", "list", "archive"}

\* /^[^\s@]+@[^\s@]+\.[^\s@]+$/.test(email)
emailRegexTest(email) ==
    LET ats == {p \in 1..Len(email) : email[p] = "@"}
    IN /\ \A p \in 1..Len(email) : ~IsSpace(email[p])
       /\ Cardinality(ats) = 1
       /\ \E a \in ats :
             /\ a > 1
             /\ \E d \in (a + 2)..(Len(email) - 1) : email[d] = "."

\* emails.filter((email) => !emailRegex.test(email))
invalidEmails(list) == SelectSeq(list, LAMBDA e : ~emailRegexTest(e))

RECURSIVE join(_, _)
\* invalidEmails.join(', ')
join(list, sep) ==
    IF list = <<>> THEN <<>>
    ELSE IF Len(list) = 1 THEN list[1]
    ELSE list[1] \o sep \o join(Tail(list), sep)

\* new Error(message)
Error(message) == MkError(FALSE, 0, TRUE, message)

\* `The operation "${operation}" is not supported`
UnsupportedError(op) == Error(StrTheOperation \o NameChars[op] \o StrIsNotSupported)

\* { json: responseData, pairedItem: { item: index } }
PairedResultEntry(k) ==
    [hasError |-> FALSE, error |-> <<>>, pairedItem |-> PairedItem(k), source |-> k,
     cause |-> NoCause, data |-> {k}]

\* { json: { error: errorMessage }, pairedItem: { item: index } } with
\* errorMessage = error instanceof Error ? error.message : String(error)
RawErrorEntry(error, k) ==
    [hasError |-> TRUE, error |-> error.message, pairedItem |-> PairedItem(k),
     source |-> k, cause |-> error, data |-> {}]

\* throw error
Rethrown(error, k) == [set |-> TRUE, message |-> error.message, itemIndex |-> k, cause |-> error]

RecipientInit ==
    /\ nItems = MaxItems
    /\ continueOnFail \in BOOLEAN
    /\ credentials \in CredentialValues
    /\ itemIndex \in 0..(MaxItems - 1)
    /\ \E op \in RecipientSelections :
          parameters = [k \in 0..(MaxItems - 1) |-> <<"recipient", op>>]
    /\ resource = "unread"
    /\ operation = "unread"
    /\ epc = "entry"
    /\ returnData = <<>>
    /\ responseData = Undefined
    /\ thrown = NothingThrown
    /\ plan = NoBranch
    /\ callIndex = 0
    /\ retryAttempt = 0
    /\ outstanding = 0
    /\ events = {}
    /\ paramReads = <<>>
    /\ lookups = [k \in 0..(MaxItems - 1) |-> 0]
    /\ emails = <<>>
    /\ emailIndex = 0
    /\ recipients = <<>>

RecipientIdle ==
    /\ emails = <<>>
    /\ emailIndex = 0
    /\ recipients = <<>>

\* what no step of the call changes
callVars == <<batchVars, itemIndex, resource, plan, callIndex, retryAttempt, lookups>>

\* The catch block: with continue-on-fail the error's own message is returned
\* in an error entry, without it the error is thrown again as it is.
RecipientCatch(error) ==
    IF continueOnFail
    THEN /\ returnData' = <<RawErrorEntry(error, itemIndex)>>
         /\ epc' = "returned"
         /\ thrown' = thrown
    ELSE /\ thrown' = Rethrown(error, itemIndex)
         /\ epc' = "thrown"
         /\ returnData' = returnData

\* sendsafely.addRecipient / removeRecipient is invoked inside new Promise
RecipientInvoke ==
    /\ outstanding' = outstanding + 1
    /\ events' = events \cup {Event("client", itemIndex), Event("sdk", itemIndex)}
    /\ epc' = "sdk"
    /\ UNCHANGED <<returnData, thrown>>

\* From the entry of execute to its first SDK call: the operation is read with
\* index, the credentials are fetched and the client is constructed outside
\* the try block; inside it the branch of the operation reads its parameters
\* and validates the addresses.
RecipientEnter ==
    /\ epc = "entry"
    /\ operation' = parameters[itemIndex][2]
    /\ \E ctorOk \in BOOLEAN, list \in EmailLists :
          IF credentials = "none"
          THEN /\ thrown' = Rethrown(Error(StrCannotReadBaseUrl), itemIndex)
               /\ epc' = "thrown"
               /\ paramReads' = getNodeParameter(<<"operation">>, itemIndex)
               /\ UNCHANGED <<returnData, outstanding, events, emails, emailIndex>>
          ELSE IF ~ctorOk
          THEN /\ \E e \in ConstructorErrors : thrown' = Rethrown(e, itemIndex)
               /\ epc' = "thrown"
               /\ paramReads' = getNodeParameter(<<"operation">>, itemIndex)
               /\ UNCHANGED <<returnData, outstanding, events, emails, emailIndex>>
          ELSE IF operation' = "add"
          THEN /\ paramReads' = getNodeParameter(<<"operation", "packageId", "keyCode", "email">>, itemIndex)
               /\ Len(list) = 1
               /\ emails' = list
               /\ IF ~emailRegexTest(list[1])
                  THEN /\ RecipientCatch(Error(StrInvalidEmailAddress \o list[1]))
                       /\ UNCHANGED <<outstanding, events, emailIndex>>
                  ELSE /\ RecipientInvoke
                       /\ emailIndex' = 1
          ELSE IF operation' = "addMultiple"
          THEN /\ paramReads' = getNodeParameter(<<"operation", "packageId", "keyCode", "emails">>, itemIndex)
               /\ emails' = list
               /\ IF invalidEmails(list) # <<>>
                  THEN /\ RecipientCatch(Error(StrInvalidEmailAddresses
                                               \o join(invalidEmails(list), StrCommaSpace)))
                       /\ UNCHANGED <<outstanding, events, emailIndex>>
                  ELSE IF list = <<>>
                  THEN /\ returnData' = <<PairedResultEntry(itemIndex)>>
                       /\ epc' = "returned"
                       /\ events' = events \cup {Event("client", itemIndex)}
                       /\ UNCHANGED <<thrown, outstanding, emailIndex>>
                  ELSE /\ RecipientInvoke
                       /\ emailIndex' = 1
          ELSE IF operation' = "remove"
          THEN /\ paramReads' = getNodeParameter(<<"operation", "packageId", "recipientId">>, itemIndex)
               /\ RecipientInvoke
               /\ UNCHANGED <<emails, emailIndex>>
          ELSE /\ paramReads' = getNodeParameter(<<"operation">>, itemIndex)
               /\ RecipientCatch(UnsupportedError(operation'))
               /\ UNCHANGED <<outstanding, events, emails, emailIndex>>
    /\ UNCHANGED <<callVars, responseData, recipients>>

\* The SDK calls back without an error: the promise resolves; addMultiple
\* pushes the recipient and goes on to the next address, and after the last one
\* the result entry is returned.
RecipientResolves ==
    /\ epc = "sdk"
    /\ outstanding' = outstanding - 1
    /\ IF operation = "addMultiple" /\ emailIndex < Len(emails)
       THEN /\ recipients' = Append(recipients, emails[emailIndex])
            /\ epc' = "next"
            /\ UNCHANGED <<returnData, responseData>>
       ELSE /\ recipients' = (IF operation = "addMultiple"
                               THEN Append(recipients, emails[emailIndex]) ELSE recipients)
            /\ responseData' = ObjectValue
            /\ returnData' = <<PairedResultEntry(itemIndex)>>
            /\ epc' = "returned"
    /\ UNCHANGED <<callVars, operation, thrown, events, paramReads, emails, emailIndex>>

\* mutant: the next addRecipient call is started while the last one is pending
RecipientNextUnawaited ==
    /\ epc = "sdk"
    /\ operation = "addMultiple"
    /\ emailIndex < Len(emails)
    /\ emailIndex' = emailIndex + 1
    /\ outstanding' = outstanding + 1
    /\ UNCHANGED <<callVars, operation, epc, returnData, responseData, thrown, events,
                   paramReads, emails, recipients>>

\* for (const email of emails): addRecipient is invoked for the next address
RecipientNext ==
    /\ epc = "next"
    /\ emailIndex' = emailIndex + 1
    /\ outstanding' = outstanding + 1
    /\ epc' = "sdk"
    /\ UNCHANGED <<callVars, operation, returnData, responseData, thrown, events, paramReads,
                   emails, recipients>>

\* The SDK calls back with an error: the promise rejects and the catch block runs.
RecipientRejects(error) ==
    /\ epc = "sdk"
    /\ outstanding' = outstanding - 1
    /\ RecipientCatch(error)
    /\ UNCHANGED <<callVars, operation, responseData, events, paramReads, emails, emailIndex,
                   recipients>>

(***************************************************************************)
(* sanitizeFileName                                                        *)
(***************************************************************************)
MaxNameLen == 4

\* the null byte, as one character
NulChar == "\\0"

StrInvalidFileName == <<"I", "n", "v", "a", "l", "i", "d", " ", "f", "i", "l", "e", " ", "n", "a", "m", "e">>
StrEmptyAfter == <<"F", "i", "l", "e", " ", "n", "a", "m", "e", " ", "c", "a", "n", "n", "o", "t", " ", "b", "e", " ", "e", "m", "p", "t", "y", " ", "a", "f", "t", "e", "r", " ", "s", "a", "n", "i", "t", "i", "z", "a", "t", "i", "o", "n">>
StrDotDot == <<".", ".">>

\* characters of the file names tried: the ones sanitizeFileName treats
\* specially and an ordinary one
FileChars == {".", "/", "\\", NulChar, " ", "a"}
FileNames == UNION {[1..n -> FileChars] : n \in 0..MaxNameLen}

RECURSIVE RemoveDotDot(_)
\* fileName.replace(/\.\./g, ''): matches are taken from the left and do not overlap
RemoveDotDot(s) ==
    IF Len(s) < 2 THEN s
    ELSE IF s[1] = "." /\ s[2] = "." THEN RemoveDotDot(SubSeq(s, 3, Len(s)))
    ELSE <<s[1]>> \o RemoveDotDot(Tail(s))

\* sanitized.replace(/[/\\]/g, '')
RemoveSeparators(s) == SelectSeq(s, LAMBDA c : c \notin {"/", "\\"})

\* sanitized.replace(/\0/g, '')
RemoveNul(s) == SelectSeq(s, LAMBDA c : c # NulChar)

RECURSIVE TrimStart(_)
TrimStart(s) == IF s # <<>> /\ IsSpace(s[1]) THEN TrimStart(Tail(s)) ELSE s

RECURSIVE TrimEnd(_)
TrimEnd(s) == IF s # <<>> /\ IsSpace(s[Len(s)]) THEN TrimEnd(SubSeq(s, 1, Len(s) - 1)) ELSE s

\* sanitized.trim()
trim(s) == TrimEnd(TrimStart(s))

FileReturn(value) == [threw |-> FALSE, value |-> value]
FileThrow(message) == [threw |-> TRUE, value |-> message]
NoFileResult == [threw |-> FALSE, value |-> <<>>]

sanitizeFileName(name) ==
    IF name = <<>> THEN FileThrow(StrInvalidFileName)
    ELSE LET sanitized == trim(RemoveNul(RemoveSeparators(RemoveDotDot(name))))
         IN IF Len(sanitized) = 0 THEN FileThrow(StrEmptyAfter) ELSE FileReturn(sanitized)

FileInit ==
    /\ fpc = "call"
    /\ fileName \in FileNames
    /\ fileResult = NoFileResult

FileIdle ==
    /\ fpc = "idle"
    /\ fileName = <<>>
    /\ fileResult = NoFileResult

\* sanitizeFileName(fileName) runs to its return or throw
SanitizeFileNameCall ==
    /\ fpc = "call"
    /\ fileResult' = sanitizeFileName(fileName)
    /\ fpc' = (IF fileResult'.threw THEN "threw" ELSE "returned")
    /\ UNCHANGED fileName

(***************************************************************************)
(* getLogger and sanitizeLogMeta                                           *)
(*                                                                         *)
(* meta is the sequence of its entries [key, value] in the order of        *)
(* Object.entries; a value is a number or a string.                        *)
(***************************************************************************)
MaxMetaKeys == 2
TruncateAt == 100

StrRedacted == <<"*", "*", "*", "R", "E", "D", "A", "C", "T", "E", "D", "*", "*", "*">>
StrTruncated == <<".", ".", ".", "[", "t", "r", "u", "n", "c", "a", "t", "e", "d", "]">>

\* const sensitiveKeys = [...]
sensitiveKeys == <<<<"a", "p", "i", "K", "e", "y">>,
                   <<"a", "p", "i", "S", "e", "c", "r", "e", "t">>,
                   <<"a", "p", "i", "_", "k", "e", "y">>,
                   <<"a", "p", "i", "_", "s", "e", "c", "r", "e", "t">>,
                   <<"p", "a", "s", "s", "w", "o", "r", "d">>,
                   <<"t", "o", "k", "e", "n">>,
                   <<"a", "u", "t", "h", "o", "r", "i", "z", "a", "t", "i", "o", "n">>,
                   <<"k", "e", "y", "C", "o", "d", "e">>,
                   <<"s", "e", "r", "v", "e", "r", "S", "e", "c", "r", "e", "t">>,
                   <<"p", "a", "c", "k", "a", "g", "e", "C", "o", "d", "e">>,
                   <<"e", "n", "c", "r", "y", "p", "t", "i", "o", "n", "K", "e", "y">>>>

\* keys of the metadata tried: three that contain a sensitive name (one inside a
\* longer key, one in capitals) and two that do not
MetaKeys == {<<"a", "p", "i", "K", "e", "y">>, <<"u", "s", "e", "r", "T", "o", "k", "e", "n">>, <<"A", "U", "T", "H", "O", "R", "I", "Z", "A", "T", "I", "O", "N">>, <<"b", "a", "s", "e", "U", "r", "l">>, <<"k", "e", "y">>}

NumberValue == [kind |-> "number", text |-> <<"7">>]
StringValue(chars) == [kind |-> "string", text |-> chars]

\* values tried: a number, a short string, and strings of TruncateAt and of
\* TruncateAt + 1 characters
MetaValues == {NumberValue, StringValue(<<"x", "7">>),
               StringValue(Repeat("s", TruncateAt)), StringValue(Repeat("s", TruncateAt + 1))}

Entry(key, value) == [key |-> key, value |-> value]
MetaEntries == {Entry(k, v) : k \in MetaKeys, v \in MetaValues}

\* the objects tried: up to MaxMetaKeys entries with different keys
Metas ==
    {m \in UNION {[1..n -> MetaEntries] : n \in 0..MaxMetaKeys} :
        \A a, b \in DOMAIN m : a # b => m[a].key # m[b].key}

NoMeta == [given |-> FALSE, entries |-> <<>>]
Meta(entries) == [given |-> TRUE, entries |-> entries]

\* mutant: the sensitive names are not lower-cased before the comparison
IsSensitiveKeyAsWritten(key) ==
    \E n \in 1..Len(sensitiveKeys) : includes(toLowerCase(key), sensitiveKeys[n])

\* sensitiveKeys.some(sk => lowerKey.includes(sk.toLowerCase()))
IsSensitiveKey(key) ==
    \E n \in 1..Len(sensitiveKeys) : includes(toLowerCase(key), toLowerCase(sensitiveKeys[n]))

\* the value stored under sanitized[key]
SanitizedValue(key, value) ==
    IF IsSensitiveKey(key) THEN StringValue(StrRedacted)
    ELSE IF value.kind = "string" /\ Len(value.text) > TruncateAt
    THEN StringValue(SubSeq(value.text, 1, TruncateAt) \o StrTruncated)
    ELSE value

\* for (const [key, value] of Object.entries(meta)) sanitized[key] = ...
sanitizeLogMeta(entries) ==
    [n \in 1..Len(entries) |-> Entry(entries[n].key, SanitizedValue(entries[n].key, entries[n].value))]

\* formatMessage: `[SendSafely] ${message}${metaStr}` with metaStr the JSON text
\* of sanitizeLogMeta(meta) when meta is given; the line is kept as its parts
formatMessage(level, meta) ==
    [prefix |-> "[SendSafely] ",
     meta |-> IF meta.given THEN Meta(sanitizeLogMeta(meta.entries)) ELSE NoMeta]

Levels == {"debug", "info", "warn", "error"}

NoLine == [sink |-> "none", method |-> "none", line |-> formatMessage("none", NoMeta)]

LoggerInit ==
    /\ lpc = "call"
    /\ n8nLogger \in BOOLEAN
    /\ logLevel \in Levels
    /\ logMeta \in {NoMeta} \cup {Meta(m) : m \in Metas}
    /\ logLine = NoLine

LoggerIdle ==
    /\ lpc = "idle"
    /\ n8nLogger = FALSE
    /\ logLevel = "debug"
    /\ logMeta = NoMeta
    /\ logLine = NoLine

\* getLogger(context).<level>(message, meta): the method of the context's
\* logger, or of console without one, receives the formatted line
LoggerCall ==
    /\ lpc = "call"
    /\ logLine' = [sink |-> IF n8nLogger THEN "n8nLogger" ELSE "console",
                   method |-> logLevel,
                   line |-> formatMessage(logLevel, logMeta)]
    /\ lpc' = "logged"
    /\ UNCHANGED <<n8nLogger, logLevel, logMeta>>

UtilIdle == FileIdle /\ LoggerIdle

(***************************************************************************)
(* Specifications                                                          *)
(***************************************************************************)
InitRetry == RetryInit /\ WrapIdle /\ SanIdle /\ ExecIdle /\ RecipientIdle /\ UtilIdle

NextRetry ==
    \/ (InvokeFn /\ UNCHANGED <<wrapVars, sanVars, execVars, recipVars, utilVars>>)
    \/ (LoopExit /\ UNCHANGED <<wrapVars, sanVars, execVars, recipVars, utilVars>>)
    \/ (FnResolves /\ UNCHANGED <<wrapVars, sanVars, execVars, recipVars, utilVars>>)
    \/ (\E error \in ErrorShapes :
            FnRejects(error) /\ UNCHANGED <<wrapVars, sanVars, execVars, recipVars, utilVars>>)
    \/ (TimerFires /\ UNCHANGED <<wrapVars, sanVars, execVars, recipVars, utilVars>>)

\* one invocation of withRetry
SpecRetry == InitRetry /\ [][NextRetry]_vars

\* One invocation of withRetry in which every invocation of fn settles, every
\* timer fires and the steps of the loop are taken: the event loop runs a
\* continuation that is ready.
SpecRetryLive == SpecRetry /\ WF_vars(NextRetry)

InitWrap == WrapInit /\ RetryIdle /\ SanIdle /\ ExecIdle /\ RecipientIdle /\ UtilIdle

NextWrap ==
    \/ (\E error \in CbErrors, result \in CbResults :
            CallbackInvoked(error, result) /\ UNCHANGED <<retryVars, sanVars, execVars, recipVars, utilVars>>)
    \/ (\E error \in {"ErrA", "ErrB"} :
            FnThrows(error) /\ UNCHANGED <<retryVars, sanVars, execVars, recipVars, utilVars>>)

\* one promise returned by wrapSdkCallback
SpecWrap == InitWrap /\ [][NextWrap]_vars

InitSanitize == SanInit /\ RetryIdle /\ WrapIdle /\ ExecIdle /\ RecipientIdle /\ UtilIdle

NextSanitize ==
    \/ (SanitizeCall /\ UNCHANGED <<retryVars, wrapVars, execVars, recipVars, utilVars>>)
    \/ (SanitizeAgain /\ UNCHANGED <<retryVars, wrapVars, execVars, recipVars, utilVars>>)

\* one call of sanitizeError, and one more on the string it returned
SpecSanitize == InitSanitize /\ [][NextSanitize]_vars

InitExec == ExecInit /\ RetryIdle /\ WrapIdle /\ SanIdle /\ RecipientIdle /\ UtilIdle

NextExec ==
    \/ (ReadSelection /\ UNCHANGED <<retryVars, wrapVars, sanVars, recipVars, utilVars>>)
    \/ (GetClient /\ UNCHANGED <<retryVars, wrapVars, sanVars, recipVars, utilVars>>)
    \/ (Dispatch /\ UNCHANGED <<retryVars, wrapVars, sanVars, recipVars, utilVars>>)
    \/ (InvokeSdk /\ UNCHANGED <<retryVars, wrapVars, sanVars, recipVars, utilVars>>)
    \/ (SdkResolves /\ UNCHANGED <<retryVars, wrapVars, sanVars, recipVars, utilVars>>)
    \/ (\E error \in SdkErrors :
            SdkRejects(error) /\ UNCHANGED <<retryVars, wrapVars, sanVars, recipVars, utilVars>>)
    \/ (SdkCallsBackEmpty /\ UNCHANGED <<retryVars, wrapVars, sanVars, recipVars, utilVars>>)
    \/ (BackoffElapsed /\ UNCHANGED <<retryVars, wrapVars, sanVars, recipVars, utilVars>>)
    \/ (Return /\ UNCHANGED <<retryVars, wrapVars, sanVars, recipVars, utilVars>>)

\* one execution of the node over a batch of items
SpecExec == InitExec /\ [][NextExec]_vars

InitRecipient == RecipientInit /\ RetryIdle /\ WrapIdle /\ SanIdle /\ UtilIdle

NextRecipient ==
    \/ (RecipientEnter /\ UNCHANGED <<retryVars, wrapVars, sanVars, utilVars>>)
    \/ (RecipientResolves /\ UNCHANGED <<retryVars, wrapVars, sanVars, utilVars>>)
    \/ (RecipientNext /\ UNCHANGED <<retryVars, wrapVars, sanVars, utilVars>>)
    \/ (\E error \in SdkErrors :
            RecipientRejects(error) /\ UNCHANGED <<retryVars, wrapVars, sanVars, utilVars>>)

\* one call of the execute function of RecipientDescription.ts
SpecRecipient == InitRecipient /\ [][NextRecipient]_vars

InitFileName == FileInit /\ LoggerIdle /\ RetryIdle /\ WrapIdle /\ SanIdle /\ ExecIdle /\ RecipientIdle

NextFileName ==
    SanitizeFileNameCall /\ UNCHANGED <<retryVars, wrapVars, sanVars, execVars, recipVars, logVars>>

\* one call of sanitizeFileName
SpecFileName == InitFileName /\ [][NextFileName]_vars

InitLogger == LoggerInit /\ FileIdle /\ RetryIdle /\ WrapIdle /\ SanIdle /\ ExecIdle /\ RecipientIdle

NextLogger ==
    LoggerCall /\ UNCHANGED <<retryVars, wrapVars, sanVars, execVars, recipVars, fileVars>>

\* one call of a method of the logger getLogger returns
SpecLogger == InitLogger /\ [][NextLogger]_vars

(***************************************************************************)
(* Properties of withRetry (checked under SpecRetry)                       *)
(***************************************************************************)
\* status 429 or status in [500, 600)
HasTransientStatus(e) ==
    e.hasStatus /\ (e.statusCode = 429 \/ (e.statusCode >= 500 /\ e.statusCode < 600))

\* the messages of the model that contain 'rate limit' or 'too many requests',
\* whatever the case of their letters
HasRateLimitPhrase(e) == e.hasMessage /\ e.message \in {MsgRateLimitMixed, MsgTooManyUpper}

\* the three retryable shapes
ExpectedRetryable(e) == HasTransientStatus(e) \/ HasRateLimitPhrase(e)

\* the latest invocation of fn has failed and no later one has been made
JustFailed == lastError.set /\ lastError.from = calls

\* C1 as stated: an error with status 429 or in [500, 600) is retried while
\* retries remain, and after any other error withRetry rejects with it at once.
C1_StatusOnlyRetry ==
    JustFailed =>
        IF HasTransientStatus(lastError.err)
        THEN /\ failures <= maxRetries => rpc \in {"delay", "loop"}
             /\ failures > maxRetries => rpc = "rejected"
        ELSE rpc = "rejected" /\ retryOutcome = ErrorOutcome(calls, lastError.err)

\* C1 amended: an error with status 429 or in [500, 600), or whose message
\* contains 'rate limit' or 'too many requests', is retried until maxRetries
\* retries have been made; after any other error withRetry rejects with it at
\* once; fn is never invoked more than maxRetries + 1 times.
C1_RetryByClass ==
    /\ maxRetries >= 0 => calls <= maxRetries + 1
    /\ JustFailed =>
        IF ExpectedRetryable(lastError.err)
        THEN /\ failures <= maxRetries => rpc \in {"delay", "loop"}
             /\ failures > maxRetries => rpc = "rejected"
        ELSE rpc = "rejected" /\ retryOutcome = ErrorOutcome(calls, lastError.err)

\* a message-only rate-limit error with a client status has been retried to the end
C1_Witness ==
    /\ rpc = "rejected"
    /\ maxRetries = 3
    /\ calls = 4
    /\ lastError.err = MkError(TRUE, 404, TRUE, MsgRateLimitMixed)

\* C2: with retries remaining, withRetry schedules a retry exactly for the
\* errors of the three retryable shapes and rejects at once for all others.
C2_Classification ==
    /\ rpc = "delay" => ExpectedRetryable(lastError.err)
    /\ (rpc = "rejected" /\ retryOutcome.kind = "error" /\ attempt < maxRetries)
          => ~ExpectedRetryable(retryOutcome.err)

\* an error with neither status code nor message was not retried
C2_Witness ==
    /\ rpc = "rejected"
    /\ attempt < maxRetries
    /\ retryOutcome = ErrorOutcome(1, MkError(FALSE, 0, FALSE, <<>>))

\* C3: the delay waited before the k-th retry (k = 0 for the first) lies in
\* [baseDelay * 2^k, baseDelay * 2^k + 200), and k < maxRetries.
C3_BackoffInterval ==
    delayCount > 0 =>
        LET k == delayCount - 1
        IN /\ k < maxRetries
           /\ totalDelay >= baseDelay * Pow2(k)
           /\ totalDelay < baseDelay * Pow2(k) + 200

\* the third backoff of a call with the default base delay, with the largest jitter
C3_Witness ==
    /\ rpc = "delay"
    /\ baseDelay = 1000
    /\ delayCount = 3
    /\ totalDelay = 4199

\* C4: when fn fails j <= maxRetries times with retryable errors and then
\* succeeds, withRetry has not given up before the success, fn has been
\* invoked exactly j + 1 times and the result of the last invocation is returned.
C4_SucceedsAfterFailures ==
    /\ (JustFailed /\ ExpectedRetryable(lastError.err) /\ failures <= maxRetries)
          => rpc \in {"delay", "loop"}
    /\ rpc = "resolved" =>
          /\ calls = failures + 1
          /\ failures <= maxRetries
          /\ retryOutcome = ResultOutcome(calls)

\* two failures with status 503, then success, with maxRetries = 3
C4_Witness ==
    /\ rpc = "resolved"
    /\ maxRetries = 3
    /\ failures = 2
    /\ calls = 3
    /\ lastError.err = MkError(TRUE, 503, FALSE, <<>>)

\* C5: when every attempt has failed with a retryable error, withRetry rejects
\* after exactly maxRetries + 1 invocations, with the error of the last one.
C5_ExhaustionThrowsLast ==
    (rpc = "rejected" /\ calls >= 1 /\ ExpectedRetryable(lastError.err)) =>
        /\ calls = maxRetries + 1
        /\ failures = calls
        /\ lastError.from = calls
        /\ retryOutcome = ErrorOutcome(calls, lastError.err)

\* four retryable failures; the last error differs from the ones before
C5_Witness ==
    /\ rpc = "rejected"
    /\ maxRetries = 3
    /\ calls = 4
    /\ delayCount = 3
    /\ retryOutcome = ErrorOutcome(4, MkError(TRUE, 429, FALSE, <<>>))

\* C6: after a non-retryable error withRetry is rejected with that same error,
\* no backoff delay has been started for it and fn is not invoked again,
\* however many retries remain.
C6_NonRetryableImmediate ==
    (lastError.set /\ ~ExpectedRetryable(lastError.err)) =>
        /\ rpc = "rejected"
        /\ retryOutcome = ErrorOutcome(lastError.from, lastError.err)
        /\ calls = lastError.from
        /\ delayCount = failures - 1

\* a 404 on the second attempt of four
C6_Witness ==
    /\ rpc = "rejected"
    /\ maxRetries = 3
    /\ attempt = 1
    /\ delayCount = 1
    /\ retryOutcome = ErrorOutcome(2, MkError(TRUE, 404, TRUE, MsgNearMiss))

(***************************************************************************)
(* Properties of wrapSdkCallback (checked under SpecWrap)                  *)
(***************************************************************************)
\* C7: after the callback's invocation the promise is fulfilled if and only
\* if the error is absent and the result is not undefined, with that result;
\* it is rejected with the error when one is present and with the synthetic
\* 'No result returned from SDK method' error when both are absent; it is
\* never fulfilled with undefined.
C7_ResolveIffResult ==
    /\ ~(promiseState = "fulfilled" /\ promiseValue.val = "undefined")
    /\ (cbCount = 1 /\ promiseValue.kind # "thrown") =>
        LET e == firstCall.error
            r == firstCall.result
            noError == e \in {"null", "undefined"}
        IN /\ promiseState \in {"fulfilled", "rejected"}
           /\ promiseState = "fulfilled" <=> (noError /\ r # "undefined")
           /\ promiseState = "fulfilled" => promiseValue = [kind |-> "result", val |-> r]
           /\ ~noError => promiseValue = [kind |-> "error", val |-> e]
           /\ (noError /\ r = "undefined") =>
                 promiseValue = [kind |-> "error", val |-> "NoResultError"]

\* a defined but falsy result has fulfilled the promise
C7_Witness ==
    /\ cbCount = 1
    /\ firstCall = [error |-> "null", result |-> "zero"]
    /\ promiseState = "fulfilled"

C9_SecretNeverInOutput ==
    (spc = "done" /\ sanForm # NoForm) => ~includes(sanOutput, sanForm.secret)

\* C10: sanitizeError("apiKey=abc123 failed") contains "apiKey=***" and does
\* not contain "abc123".
C10_ExampleOutput ==
    (spc = "done" /\ sanInput = ErrorValue("string", StrExample, <<>>)) =>
        /\ includes(sanOutput, <<"a", "p", "i", "K", "e", "y", "=", "*", "*", "*">>)
        /\ ~includes(sanOutput, StrSecretAbc)

\* C11: sanitizeError is idempotent on strings: sanitizing the output of
\* sanitizeError(m) once more returns it unchanged, for every string m, also
\* when a replacement text is itself matched by another pattern.
C11_Idempotent ==
    (spc = "again" /\ sanInput.kind = "string") => sanAgain = sanOutput

\* 'ss-api-key: x7': the text pattern 3 has written inside it is read again
C11_Witness ==
    /\ spc = "again"
    /\ sanInput = ErrorValue("string", <<"s", "s", "-", "a", "p", "i", "-", "k", "e", "y", ":", " ", "x", "7">>, <<>>)
    /\ sanOutput = <<"s", "s", "-", "a", "p", "i", "_", "k", "e", "y", "=", "*", "*", "*">>
    /\ sanAgain = sanOutput

(***************************************************************************)
(* Properties of execute (checked under SpecExec)                          *)
(***************************************************************************)
\* the positions in returnData of the entries made for item k
EntriesOf(k) == {n \in 1..Len(returnData) : returnData[n].source = k}

\* something has been done for item k: a credential lookup, a client
\* construction, a withRetry call, an SDK call, a delay, or a parameter read
\* with index k (the reads of resource and operation at index 0 aside)
Touched(k) ==
    \/ lookups[k] > 0
    \/ \E e \in events : e[2] = k
    \/ \E n \in 1..Len(paramReads) :
          paramReads[n][2] = k /\ paramReads[n][1] \notin {"resource", "operation"}

\* the selected operation returns an array
ListSelected == operation = "list"

\* C12: with continue-on-fail disabled no error entry is ever appended; an
\* error on item i makes execute throw for item i, and then every item before
\* i has its results in returnData (one entry, or the elements of its list),
\* nothing of item i or later is in it, and no credential lookup, client
\* construction, parameter read or SDK call has been made for an item after i.
C12_AbortOnError ==
    /\ ~continueOnFail => \A n \in 1..Len(returnData) : ~returnData[n].hasError
    /\ epc = "thrown" =>
          /\ ~continueOnFail
          /\ thrown.set /\ thrown.itemIndex = itemIndex
          /\ outstanding = 0
          /\ \A n \in 1..Len(returnData) : returnData[n].source < itemIndex
          /\ \A k \in 0..(itemIndex - 1) :
                /\ lookups[k] = 1
                /\ ~ListSelected => Cardinality(EntriesOf(k)) = 1
          /\ \A k \in (itemIndex + 1)..(nItems - 1) : ~Touched(k)

\* three items, the second fails after the first has succeeded
C12_Witness ==
    /\ epc = "thrown"
    /\ nItems = 3
    /\ thrown.itemIndex = 1
    /\ thrown.cause = ErrUnauthorized
    /\ Len(returnData) = 1
    /\ lookups = [k \in 0..2 |-> IF k <= 1 THEN 1 ELSE 0]

\* the positions of the entries with an error field, and the items they were made for
ErrorPositions == {n \in 1..Len(returnData) : returnData[n].hasError}
FailedItems == {returnData[n].source : n \in ErrorPositions}

\* execute has returned from a batch run with continue-on-fail in which exactly
\* one item failed
OneItemFailed == epc = "returned" /\ continueOnFail /\ Cardinality(FailedItems) = 1

\* C13 as stated: with continue-on-fail enabled and exactly item i failing, the
\* output has exactly N entries, and the entry of item i is the only one with
\* an error field, whatever the operation.
C13_ExactlyNEntries ==
    OneItemFailed =>
        /\ Len(returnData) = nItems
        /\ \A n \in 1..Len(returnData) : returnData[n].hasError <=> returnData[n].source \in FailedItems

\* the entries execute appends when the handler has returned for an item
AppendedOnSuccess ==
    (itemIndex' = itemIndex + 1 /\ Len(returnData') >= Len(returnData)
        /\ (Len(returnData') = Len(returnData) \/ ~returnData'[Len(returnData')].hasError))
    => Len(returnData') = Len(returnData)
           + (IF responseData'.kind = "array" THEN responseData'.len ELSE 1)

\* C13 amended: with continue-on-fail enabled and exactly item i failing, the
\* output has exactly one entry with an error field, the one made for item i,
\* with pairedItem = i; every other item contributes one entry when its handler
\* returns an object, and then the output has exactly N entries, and one entry
\* per element when its handler returns an array (the list operations), and
\* then the output may have fewer or more than N entries.
C13_OneErrorEntry ==
    /\ [](OneItemFailed =>
            /\ Cardinality(ErrorPositions) = 1
            /\ \A n \in ErrorPositions : returnData[n].pairedItem = PairedItem(returnData[n].source)
            /\ \A k \in (0..(nItems - 1)) \ FailedItems :
                    ~ListSelected => Cardinality(EntriesOf(k)) = 1
            /\ ~ListSelected => Len(returnData) = nItems)
    /\ [][AppendedOnSuccess]_vars

\* three items listed, the second fails, the others return two elements each
C13_Witness ==
    /\ OneItemFailed
    /\ nItems = 3
    /\ ListSelected
    /\ FailedItems = {1}
    /\ Len(returnData) = 5

\* C14: every entry made for a successful item i carries pairedItem = i.
C14_SuccessPaired ==
    \A n \in 1..Len(returnData) :
        ~returnData[n].hasError => returnData[n].pairedItem = PairedItem(returnData[n].source)

\* the resource read is none execute has a branch for, or the operation read
\* is none the handler of the resource has a branch for
UnsupportedSelection ==
    /\ epc \notin {"idle", "start"}
    /\ \/ resource \notin Resources
       \/ resource = "package" /\ operation \notin PackageOperations
       \/ resource = "file" /\ operation \notin FileOperations
       \/ resource = "recipient" /\ operation \notin RecipientOperations

\* the name that is not supported
InvalidValue == IF resource \notin Resources THEN resource ELSE operation

\* the error was thrown by getSendSafelyClient
IsClientError(error) ==
    \/ error \in {NodeOperationError(StrNoCredentials), NodeOperationError(StrMissingCredentials)}
    \/ \E c \in ConstructorErrors :
          error = NodeOperationError(StrFailedToInitialize \o sanitizeError(Caught(c)))

\* no SDK method has been invoked, withRetry has not been entered, no backoff
\* timer has been started
NoSdkActivity == \A e \in events : e[1] \notin {"sdk", "withRetry", "delay"}

\* C15 as stated: with an unsupported resource or operation name no SDK call
\* is made, withRetry is not entered, the error names the invalid value, and
\* the batch does not go on to a later item, with or without continue-on-fail
\* (stated for complete credentials, so that the error is the unsupported name).
C15_UnsupportedEndsBatch ==
    (UnsupportedSelection /\ credentials = "complete") =>
        /\ NoSdkActivity
        /\ \A k \in 1..(nItems - 1) : lookups[k] = 0
        /\ \A n \in ErrorPositions :
              IsClientError(returnData[n].cause)
                 \/ includes(returnData[n].error, NameChars[InvalidValue])
        /\ thrown.set =>
              IsClientError(thrown.cause) \/ includes(thrown.message, NameChars[InvalidValue])

\* C15 amended: with an unsupported resource or operation name no SDK call is
\* made, withRetry is not entered and no handler parameter is read, for any
\* item; every item that execute reaches fails, with an error that names the
\* invalid value unless getSendSafelyClient has failed first; without
\* continue-on-fail execute throws at the first item and touches no later one,
\* with continue-on-fail it goes on and returns one error entry per item.
C15_UnsupportedFailsEachItem ==
    UnsupportedSelection =>
        /\ NoSdkActivity
        /\ \A n \in 1..Len(paramReads) : paramReads[n][1] \in {"resource", "operation"}
        /\ \A n \in 1..Len(returnData) :
              /\ returnData[n].hasError
              /\ returnData[n].source = n - 1
              /\ IsClientError(returnData[n].cause)
                    \/ includes(returnData[n].error, NameChars[InvalidValue])
        /\ thrown.set =>
              IsClientError(thrown.cause) \/ includes(thrown.message, NameChars[InvalidValue])
        /\ ~continueOnFail =>
              /\ epc # "returned"
              /\ returnData = <<>>
              /\ \A k \in 1..(nItems - 1) : ~Touched(k)
        /\ (continueOnFail /\ epc = "returned") => Len(returnData) = nItems

\* recipient addMultiple with continue-on-fail over three items: three error
\* entries naming addMultiple
C15_Witness ==
    /\ epc = "returned"
    /\ continueOnFail
    /\ nItems = 3
    /\ <<resource, operation>> = <<"recipient", "addMultiple">>
    /\ Len(returnData) = 3
    /\ \A n \in 1..3 : returnData[n].cause = UnsupportedOperationError("addMultiple", "recipient")

\* the known operations of each resource
KnownPairs ==
    {<<"package", o>> : o \in {"create", "get", "finalize", "delete", "list", "update"}}
    \cup {<<"file", o>> : o \in {"upload", "download", "delete", "list"}}
    \cup {<<"recipient", o>> : o \in {"add", "addMultiple", "remove", "list"}}

\* the errors execute has made visible so far: in error entries or by throwing
VisibleCauses ==
    {returnData[n].cause : n \in ErrorPositions} \cup (IF thrown.set THEN {thrown.cause} ELSE {})

\* C16: for every known (resource, operation) pair no item ends with a 'not
\* supported' error, and the handler of an item that has a client goes on to
\* an SDK invocation.
C16_KnownPairsDispatched ==
    (epc \notin {"idle", "start"} /\ <<resource, operation>> \in KnownPairs) =>
        /\ UnsupportedOperationError(operation, resource) \notin VisibleCauses
        /\ UnsupportedResourceError(resource) \notin VisibleCauses
        /\ \A k \in 0..(nItems - 1) :
              (Event("client", k) \in events /\ itemIndex > k) =>
                  (Event("sdk", k) \in events
                      \/ NodeOperationError(StrNoBinaryData) \in VisibleCauses)

\* the loop has finished with item k: its entries, if any, are in returnData
Finished(k) == k < itemIndex

\* C18: at most one SDK call is outstanding at any moment, and only while
\* execute awaits it; an SDK call, a withRetry call, a delay, a client or a
\* credential lookup exists for an item only when the loop has finished with
\* every item before it, an item the loop has finished with has its entry
\* (the list operations may append none); after an abort nothing is
\* outstanding; the entries of returnData are in the order of their items.
C18_Sequential ==
    /\ outstanding \in {0, 1}
    /\ outstanding = 1 <=> epc = "sdk"
    /\ \A k \in 0..(nItems - 1) :
          /\ (lookups[k] > 0 \/ \E e \in events : e[2] = k) => k <= itemIndex
          /\ k > itemIndex => EntriesOf(k) = {}
          /\ (Finished(k) /\ ~ListSelected) => Cardinality(EntriesOf(k)) = 1
          /\ (~Finished(k) /\ epc # "thrown") => EntriesOf(k) = {}
    /\ epc \in {"sdk", "delay", "handler", "dispatch"} => itemIndex < nItems
    /\ \A m, n \in 1..Len(returnData) : m < n => returnData[m].source <= returnData[n].source

\* the SDK call of the third item is outstanding, after a success and a failure
C18_Witness ==
    /\ epc = "sdk"
    /\ outstanding = 1
    /\ nItems = 3
    /\ itemIndex = 2
    /\ Len(returnData) = 2
    /\ ~returnData[1].hasError
    /\ returnData[2].hasError

\* the reads made by the step
NewReads == {paramReads'[n] : n \in (Len(paramReads) + 1)..Len(paramReads')}

\* the reads of parameter name made so far
ReadsOf(name) == {n \in 1..Len(paramReads) : paramReads[n][1] = name}

\* C19: resource and operation are read exactly once each, at index 0, in the
\* step before the loop, and the values read are the ones of the first item,
\* kept for the whole batch: every handler plan is the one of that selection,
\* whatever the later items are configured with.  Every other parameter is
\* read while its item is processed, with the index of that item, and every
\* item whose handler has run has had its parameters read with its own index.
C19_SelectionReadOnce ==
    /\ [](epc \notin {"idle", "start"} =>
            /\ <<resource, operation>> = parameters[0]
            /\ SubSeq(paramReads, 1, 2) = << <<"resource", 0>>, <<"operation", 0>> >>
            /\ Cardinality(ReadsOf("resource")) = 1
            /\ Cardinality(ReadsOf("operation")) = 1
            /\ plan # NoBranch =>
                  \E updateFields \in SUBSET {"life", "label"} :
                      plan = Handler(parameters[0][1], parameters[0][2], updateFields)
            /\ \A k \in 0..(nItems - 1) :
                  Event("sdk", k) \in events =>
                      \E n \in 3..Len(paramReads) : paramReads[n][2] = k)
    /\ [][epc # "start" =>
            \A r \in NewReads : r[1] \notin {"resource", "operation"} /\ r[2] = itemIndex]_vars

\* the second of two items, configured with another selection than the first,
\* is handled as a file download: its binaryPropertyName has been read after
\* the SDK call, with index 1
C19_Witness ==
    /\ epc = "returned"
    /\ nItems = 2
    /\ parameters[0] = <<"file", "download">>
    /\ parameters[1] = <<"package", "get">>
    /\ Len(returnData) = 2
    /\ paramReads[Len(paramReads)] = <<"binaryPropertyName", 1>>

\* the errors getSendSafelyClient throws before it reaches the constructor
ConfigurationErrors ==
    {NodeOperationError(StrNoCredentials), NodeOperationError(StrMissingCredentials)}

\* C20: when the credentials are missing or lack baseUrl, apiKey or apiSecret,
\* getSendSafelyClient is invoked once for each item execute reaches, and for
\* no item is a client constructed, an SDK method invoked, withRetry entered
\* or a backoff timer started; the item fails with the configuration error:
\* execute throws it at the first item, or with continue-on-fail appends it as
\* the item's error entry.
C20_MissingCredentials ==
    credentials # "complete" =>
        /\ events = {}
        /\ outstanding = 0
        /\ epc \notin {"dispatch", "handler", "sdk", "delay"}
        /\ \A k \in 0..(nItems - 1) :
              /\ lookups[k] = (IF Finished(k) \/ (epc = "thrown" /\ k = itemIndex) THEN 1 ELSE 0)
              /\ Finished(k) =>
                    \E n \in EntriesOf(k) :
                        /\ returnData[n].hasError
                        /\ returnData[n].cause \in ConfigurationErrors
                        /\ returnData[n].error = returnData[n].cause.message
        /\ Len(returnData) = (IF continueOnFail THEN itemIndex ELSE 0)
        /\ thrown.set =>
              /\ thrown.cause \in ConfigurationErrors
              /\ thrown.itemIndex = 0
              /\ thrown.message = thrown.cause.message
        /\ (epc = "loop" /\ itemIndex > 0) => continueOnFail

\* credentials without apiSecret: execute has thrown at the first of three items
C20_Witness ==
    /\ epc = "thrown"
    /\ credentials = "incomplete"
    /\ nItems = 3
    /\ thrown.message = StrMissingCredentials
    /\ lookups = [k \in 0..2 |-> IF k = 0 THEN 1 ELSE 0]
    /\ events = {}

\* C17: every error message execute has made visible, in an error entry or by
\* throwing, is sanitizeError of the error that was caught.
C17_ErrorsSanitized ==
    /\ \A n \in ErrorPositions :
          returnData[n].error = sanitizeError(Caught(returnData[n].cause))
    /\ thrown.set => thrown.message = sanitizeError(Caught(thrown.cause))

\* the items for which the SDK has called back with neither error nor result
EmptyCallbacks == {k \in 0..(nItems - 1) : Event("empty", k) \in events}

\* the error entries appended for item k
ErrorEntriesOf(k) == {n \in EntriesOf(k) : returnData[n].hasError}

\* C21: once the SDK has called back with neither error nor result for an item,
\* the item has failed with the synthetic 'No result returned from SDK method'
\* error, which withRetry does not class as retryable: with continue-on-fail the
\* item is over with its one error entry and the loop has moved on, without it
\* execute has thrown that error.
C21_ProtocolViolationFails ==
    \A k \in EmptyCallbacks :
        /\ ~Retryable(NoResultError)
        /\ IF continueOnFail
           THEN /\ k < itemIndex
                /\ EntriesOf(k) = ErrorEntriesOf(k)
                /\ Cardinality(ErrorEntriesOf(k)) = 1
                /\ \A n \in ErrorEntriesOf(k) :
                      /\ returnData[n].error = StrNoResult
                      /\ returnData[n].cause = NoResultError
           ELSE /\ epc = "thrown"
                /\ thrown.itemIndex = k
                /\ thrown.message = StrNoResult

\* the SDK has reported no error for the delete of the first item, yet the
\* item has failed and the batch has gone on
C21_Witness ==
    /\ parameters[0] = <<"package", "delete">>
    /\ Event("empty", 0) \in events
    /\ Event("delay", 0) \notin events
    /\ continueOnFail
    /\ epc = "returned"
    /\ nItems > 1

(***************************************************************************)
(* Properties of execute of RecipientDescription.ts (checked under         *)
(* SpecRecipient)                                                          *)
(***************************************************************************)
\* a step that starts an addRecipient call of addMultiple
CallStarted == operation' = "addMultiple" /\ emailIndex' # emailIndex

\* a step in which the pending addRecipient call of addMultiple fails
CallFailed ==
    /\ operation = "addMultiple"
    /\ epc = "sdk"
    /\ outstanding' < outstanding
    /\ recipients' = recipients

\* C22: addMultiple has at most one addRecipient call pending; the call for
\* the next address starts only when the calls for all addresses before it have
\* succeeded, the addresses are taken in list order, and the step in which a
\* call fails ends execute with no call pending.
C22_Sequential ==
    /\ [](operation = "addMultiple" =>
            /\ outstanding <= 1
            /\ emailIndex <= Len(emails)
            /\ recipients = SubSeq(emails, 1, Len(recipients))
            /\ epc = "sdk" => (outstanding = 1 /\ Len(recipients) = emailIndex - 1)
            /\ epc \in {"returned", "thrown"} => outstanding = 0)
    /\ [][/\ CallStarted => (emailIndex' = emailIndex + 1 /\ Len(recipients) = emailIndex)
          /\ CallFailed => (epc' \in {"returned", "thrown"} /\ outstanding' = 0)]_vars

\* of three addresses the first has been added, the call for the second has
\* failed and none has been made for the third
C22_Witness ==
    /\ operation = "addMultiple"
    /\ Len(emails) = 3
    /\ recipients = <<emails[1]>>
    /\ emailIndex = 2
    /\ epc = "returned"
    /\ returnData[1].hasError
    /\ outstanding = 0

(***************************************************************************)
(* Further properties of withRetry (checked under SpecRetry)               *)
(***************************************************************************)
\* withRetry has settled
Settled == rpc \in {"resolved", "rejected"}

\* C23: for maxRetries >= 0 the operation is invoked at most maxRetries + 1
\* times and the number of backoff delays started is the number of invocations
\* made while a delay runs or the next invocation is due, and one less while an
\* invocation is pending and once withRetry has settled: one delay between two
\* consecutive invocations and none after the last.
C23_CallsAndDelays ==
    maxRetries >= 0 =>
        /\ calls <= maxRetries + 1
        /\ rpc \in {"loop", "delay"} => delayCount = calls
        /\ rpc = "await_fn" => delayCount = calls - 1
        /\ Settled => (calls >= 1 /\ delayCount = calls - 1)

\* the last permitted invocation has failed with a retryable error after
\* maxRetries delays, and no further delay was started
C23_Witness ==
    /\ maxRetries = 2
    /\ rpc = "rejected"
    /\ calls = 3
    /\ delayCount = 2
    /\ Retryable(retryOutcome.err)

\* C24: when every invocation of fn settles, withRetry eventually resolves or
\* rejects.
C24_Terminates == <>Settled

\* the longest run, maxRetries retries after the first attempt, has ended
C24_Witness ==
    /\ maxRetries = MaxRetriesBound
    /\ Settled
    /\ calls = MaxRetriesBound + 1
    /\ delayCount = MaxRetriesBound

\* withRetry has rejected with an error that an invocation of fn produced
RejectedWithOwnError ==
    /\ calls >= 1
    /\ retryOutcome.kind = "error"
    /\ retryOutcome.from \in 1..calls
    /\ retryOutcome = ErrorOutcome(lastError.from, lastError.err)

\* C25 as stated: whenever withRetry has rejected, fn has been invoked at least
\* once and the rejection value is an error of an invocation, never the generic
\* error, whatever maxRetries is.
C25_NeverGeneric == rpc = "rejected" => RejectedWithOwnError

\* C25 amended: for maxRetries >= 0 a rejection follows at least one invocation
\* and carries an error of an invocation; for negative maxRetries withRetry
\* rejects with the generic error without invoking fn.
C25_GenericOnlyWithoutAttempt ==
    rpc = "rejected" =>
        IF maxRetries >= 0 THEN RejectedWithOwnError
        ELSE /\ calls = 0
             /\ retryOutcome.kind = "generic"
             /\ retryOutcome.err = GenericRetryError

\* with maxRetries = -1 withRetry has rejected with the generic error
C25_Witness ==
    /\ maxRetries = -1
    /\ rpc = "rejected"
    /\ calls = 0
    /\ retryOutcome.err = GenericRetryError

\* the levels and messages withRetry logs
LogKinds == {<<"debug", "Retry attempt starting">>, <<"debug", "Non-retryable error encountered">>,
             <<"warn", "Max retries exhausted">>, <<"info", "Retrying after delay">>}

\* C26: with and without a logger, every step of withRetry changes attempt,
\* lastError, the invocation and delay counts, the delay and the settled value
\* exactly as a step of the earlier version without the logger parameter does,
\* and it can take a step whenever the earlier version can; the logger only
\* receives lines, and none when it is absent.
C26_LoggingObservesOnly ==
    /\ [][NextV1]_coreVars
    /\ []((ENABLED <<NextV1>>_coreVars) => (ENABLED <<NextRetry>>_vars))
    /\ [](~logger => logged = <<>>)
    /\ [](\A n \in 1..Len(logged) : <<logged[n].level, logged[n].message>> \in LogKinds)

\* with a logger, withRetry has logged two retries and the exhaustion and has
\* rejected after three invocations
C26_Witness ==
    /\ logger
    /\ maxRetries = 2
    /\ rpc = "rejected"
    /\ calls = 3
    /\ Len(logged) = 5
    /\ logged[5].message = "Max retries exhausted"

(***************************************************************************)
(* Further properties of execute (checked under SpecExec)                  *)
(***************************************************************************)
UpdateSelected == resource = "package" /\ operation = "update"

\* the handler is between its first SDK call and its return
InHandler == epc \in {"handler", "sdk", "delay"}

\* the SDK methods that have called back with a result in this handler call and
\* the method the handler is at
Succeeded == {plan.calls[c] : c \in 1..(callIndex - 1)}
CurrentMethod == plan.calls[callIndex]

UpdateOrder == <<"updatePackageLife", "updatePackageDescriptor", "getPackageInformation">>
Position(m) == CHOOSE n \in 1..Len(UpdateOrder) : UpdateOrder[n] = m

\* a step in which the item being processed fails
ItemFails == thrown' # thrown \/ (Len(returnData') > Len(returnData) /\ returnData'[Len(returnData')].hasError)

\* C27: while package update runs, the methods it has completed and the one it
\* is at follow the order updatePackageLife, updatePackageDescriptor,
\* getPackageInformation, the last always being getPackageInformation; every
\* method is entered at attempt 0 of its own withRetry; the handler moves to
\* the next method only in a step in which the SDK has called back with a
\* result; and a step in which the item fails leaves the handler with no SDK
\* call pending, so that no later method is started and none is made to undo
\* the ones that succeeded.
C27_UpdateOrder ==
    /\ []((UpdateSelected /\ InHandler) =>
            /\ callIndex \in 1..Len(plan.calls)
            /\ plan.calls[Len(plan.calls)] = "getPackageInformation"
            /\ \A c \in 1..Len(plan.calls) : plan.calls[c] \in {UpdateOrder[n] : n \in 1..3}
            /\ \A c, d \in 1..Len(plan.calls) :
                  c < d => Position(plan.calls[c]) < Position(plan.calls[d])
            /\ \A m \in Succeeded : Position(m) < Position(CurrentMethod)
            /\ epc = "handler" => (retryAttempt = 0 /\ outstanding = 0))
    /\ [][UpdateSelected =>
            /\ (InHandler /\ callIndex' # callIndex /\ ~ItemFails) =>
                  /\ epc = "sdk"
                  /\ outstanding' = outstanding - 1
                  /\ IF callIndex < Len(plan.calls)
                     THEN callIndex' = callIndex + 1 /\ epc' = "handler" /\ plan' = plan
                     ELSE Len(returnData') = Len(returnData) + 1 /\ epc' = "loop"
            /\ (InHandler /\ ItemFails) =>
                  /\ epc' \in {"loop", "thrown"}
                  /\ outstanding' = 0
                  /\ plan' = NoBranch
            /\ (epc' = "sdk" /\ epc = "handler") =>
                  (retryAttempt' = 0 /\ callIndex' = callIndex /\ plan' = plan)]_vars

\* updatePackageLife has succeeded, the last attempt of updatePackageDescriptor
\* is pending after a retry, and getPackageInformation is still to come
C27_Witness ==
    /\ UpdateSelected
    /\ epc = "sdk"
    /\ plan.calls = UpdateOrder
    /\ callIndex = 2
    /\ retryAttempt = 1
    /\ Succeeded = {"updatePackageLife"}

\* C28: every result entry is built from a value that the handler call for
\* the item it was appended for has returned, an error entry is built from no
\* handler result, and an item that has failed has its error entry and nothing
\* else, whatever responseData still holds from an earlier item.
C28_NoStaleResult ==
    /\ \A n \in 1..Len(returnData) :
          returnData[n].data = (IF returnData[n].hasError THEN {} ELSE {returnData[n].source})
    /\ \A k \in 0..(nItems - 1) :
          ErrorEntriesOf(k) # {} =>
              (EntriesOf(k) = ErrorEntriesOf(k) /\ Cardinality(ErrorEntriesOf(k)) = 1)

\* the second item has failed while responseData still held the result of the
\* first, and only its error entry was appended
C28_Witness ==
    /\ responseData.origin = {0}
    /\ responseData.kind = "object"
    /\ itemIndex = 2
    /\ Len(returnData) = 2
    /\ ~returnData[1].hasError
    /\ returnData[2].hasError
    /\ returnData[2].source = 1

(***************************************************************************)
(* Properties of sanitizeFileName (checked under SpecFileName)             *)
(***************************************************************************)
\* C29: a name sanitizeFileName returns contains no '..', no '/', no '\' and
\* no null byte.
C29_NoTraversal ==
    fpc = "returned" =>
        /\ ~includes(fileResult.value, StrDotDot)
        /\ \A n \in 1..Len(fileResult.value) : fileResult.value[n] \notin {"/", "\\", NulChar}

(***************************************************************************)
(* Properties of the logger (checked under SpecLogger)                     *)
(***************************************************************************)
\* the key contains, whatever the case, one of the sensitive names
NamesSensitive(key) ==
    \E n \in 1..Len(sensitiveKeys) : includes(toLowerCase(key), toLowerCase(sensitiveKeys[n]))

\* the metadata of the line is the given metadata with the same keys in the
\* same order, sensitive keys redacted, and a long string under another key
\* replaced by long(text)
SanitizedWith(long(_)) ==
    lpc = "logged" =>
        /\ logLine.line.meta.given = logMeta.given
        /\ Len(logLine.line.meta.entries) = Len(logMeta.entries)
        /\ \A n \in 1..Len(logMeta.entries) :
              LET inp == logMeta.entries[n]
                  outp == logLine.line.meta.entries[n]
              IN /\ outp.key = inp.key
                 /\ outp.value =
                       (IF NamesSensitive(inp.key) THEN StringValue(StrRedacted)
                        ELSE IF inp.value.kind = "string" /\ Len(inp.value.text) > TruncateAt
                        THEN StringValue(long(inp.value.text))
                        ELSE inp.value)

FirstHundred(text) == SubSeq(text, 1, TruncateAt)
FirstHundredMarked(text) == SubSeq(text, 1, TruncateAt) \o StrTruncated

\* C30 as stated: a long string under a key that is not sensitive is cut to
\* its first 100 characters.
C30_TruncatedTo100 == SanitizedWith(FirstHundred)

\* C30 amended: it is replaced by its first 100 characters followed by
\* '...[truncated]'.
C30_TruncatedAndMarked == SanitizedWith(FirstHundredMarked)

\* a line whose metadata had a sensitive key in capitals and a string of 101
\* characters under baseUrl
C30_Witness ==
    /\ lpc = "logged"
    /\ Len(logMeta.entries) = 2
    /\ logMeta.entries[1].key = <<"A", "U", "T", "H", "O", "R", "I", "Z", "A", "T", "I", "O", "N">>
    /\ logMeta.entries[2].key = <<"b", "a", "s", "e", "U", "r", "l">>
    /\ Len(logMeta.entries[2].value.text) = TruncateAt + 1
    /\ logLine.line.meta.entries[1].value.text = StrRedacted
    /\ Len(logLine.line.meta.entries[2].value.text) = TruncateAt + Len(StrTruncated)

====
